---- MODULE Spec2Model ----
(***************************************************************************)
(* Model of the Robin Hood cell table of src/cell_table.c and of the       *)
(* chaining hash table of src/hash_table.c.  Spec is a caller of the calls *)
(* of the cell table that write, ReadSpec a caller that builds a cell      *)
(* table and reads it (get, contains, size, iterator), HtSpec a caller of  *)
(* the chaining hash table, FnSpec a caller of one of the functions        *)
(* point2d_cmp, hash_bytes, find_elem, rehash and cell_table_put on its    *)
(* own, and LifeSpec the generations of src/life-cell_table.c.             *)
(*                                                                         *)
(* The table is the C struct: num_buckets, num_elems, load_factor and the  *)
(* bucket array.  Pointers to elements are bucket indices.  Unsigned 32    *)
(* bit hash values are pairs <<hi, lo>> of 16 bit halves; a long is 8      *)
(* bytes, little endian, two's complement (LP64).  Load factors are exact  *)
(* fractions <<num, den>> whose value a C float represents exactly, so     *)
(* the float comparison of the code is the comparison of the fractions.    *)
(***************************************************************************)
EXTENDS Integers, Sequences, FiniteSets

(***************************************************************************)
(* Bounds of the model.                                                    *)
(***************************************************************************)
MaxY == 1
MaxValue == 1
MaxCreateN == 3
MaxBuckets == 8
MaxHtKeys == 3
MaxHtValue == 2
MaxHtBuckets == 4
MaxQ == 1
MaxLen == 3
MaxFnKeys == 4
MaxPuts == 3
LifeBuckets == 4
MaxCells == 4
MaxGenerations == 2

\* a long is <<q, r>>: r is the low 32 bits read as a signed int and q the
\* rest, so that its value is q * 2^32 + r
Long(n) == <<0, n>>

\* a Point2D whose bytes are all zero
ZeroPoint == <<Long(0), Long(0)>>

Keys == {<<Long(0), Long(y)>> : y \in 0..MaxY}

\* the coordinates point2d_cmp is called with on its own: small ones, the
\* largest int, and the same with high bits set
CmpLongs == {<<q, r>> : q \in 0..MaxQ, r \in {-1, 0, 1, 2147483647}}

CmpPoints == CmpLongs \X CmpLongs

\* the bytes and the byte sequences hash_bytes is called with on its own
HashByteValues == {0, 1, 97, 255}

RECURSIVE SeqsUpTo(_, _)
SeqsUpTo(S, n) ==
    IF n = 0 THEN {<<>>}
    ELSE LET shorter == SeqsUpTo(S, n - 1)
         IN  shorter \cup {Append(q, x) : q \in shorter, x \in S}

HashData == SeqsUpTo(HashByteValues, MaxLen)

\* the keys of the tables find_elem and rehash are called with on their
\* own: {0,0}, {4294967296,0}, {1,1}, {0,1}, {1,0}
FnKeySeq ==
    << <<Long(0), Long(0)>>, <<<<1, 0>>, Long(0)>>, <<Long(1), Long(1)>>,
       <<Long(0), Long(1)>>, <<Long(1), Long(0)>> >>

FnKeys == {FnKeySeq[i] : i \in 1..MaxFnKeys}

\* the cells of the inputs of the simulation: a row of three, the cell above
\* its middle, and the cells above its ends
LifeCellSeq ==
    << <<Long(0), Long(0)>>, <<Long(1), Long(0)>>, <<Long(2), Long(0)>>,
       <<Long(1), Long(1)>>, <<Long(0), Long(1)>>, <<Long(2), Long(1)>> >>

\* the points the simulation looks at within its generations: a generation
\* reaches one cell further, checkcell one beyond that, and alive one more
LifePoints ==
    {<<Long(x), Long(y)>> : x \in (-MaxGenerations - 1)..(MaxGenerations + 3),
                            y \in (-MaxGenerations - 1)..(MaxGenerations + 2)}
Values == 1..MaxValue
NULL == 0
NoElem == -1

\* load factors handed to cell_table_create: two valid ones, two invalid ones
LoadFactors == {<<1, 4>>, <<3, 4>>, <<0, 1>>, <<1, 1>>}

(***************************************************************************)
(* Bit operations on non-negative integers.                                *)
(***************************************************************************)
RECURSIVE BitAnd(_, _)
BitAnd(a, b) ==
    IF a = 0 \/ b = 0 THEN 0
    ELSE (a % 2) * (b % 2) + 2 * BitAnd(a \div 2, b \div 2)

RECURSIVE BitXor(_, _)
BitXor(a, b) ==
    IF a = 0 THEN b
    ELSE IF b = 0 THEN a
    ELSE (((a % 2) + (b % 2)) % 2) + 2 * BitXor(a \div 2, b \div 2)

(***************************************************************************)
(* hash_bytes: FNV-1, 32 bit, on <<hi, lo>> halves.                        *)
(***************************************************************************)
FNV_32_PRIME_HI == 256
FNV_32_PRIME_LO == 403
FNV_32_BASIS_HI == 33052
FNV_32_BASIS_LO == 40389
SizeofLong == 8

\* a step that takes the byte in before it multiplies (FNV-1a)
hash_step_xor_first(hash, byte) ==
    LET mixed == BitXor(hash[2], byte)
        prod_lo == mixed * FNV_32_PRIME_LO
        hi == (hash[1] * FNV_32_PRIME_LO + mixed * FNV_32_PRIME_HI
                 + (prod_lo \div 65536)) % 65536
    IN  <<hi, prod_lo % 65536>>

\* hash = (hash * FNV_32_PRIME) ^ byte, modulo 2^32
hash_step(hash, byte) ==
    LET prod_lo == hash[2] * FNV_32_PRIME_LO
        lo == prod_lo % 65536
        hi == (hash[1] * FNV_32_PRIME_LO + hash[2] * FNV_32_PRIME_HI
                 + (prod_lo \div 65536)) % 65536
    IN  <<hi, BitXor(lo, byte)>>

RECURSIVE hash_loop(_, _, _)
hash_loop(hash, data, i) ==
    IF i > Len(data) THEN hash
    ELSE hash_loop(hash_step(hash, data[i]), data, i + 1)

hash_bytes(data) == hash_loop(<<FNV_32_BASIS_HI, FNV_32_BASIS_LO>>, data, 1)

\* the n low bytes of the two's complement of i, lowest first
RECURSIVE int_bytes(_, _)
int_bytes(i, n) ==
    IF n = 0 THEN <<>> ELSE <<i % 256>> \o int_bytes(i \div 256, n - 1)

\* the bytes of a long in memory: the low 32 bits, then the high 32 bits
long_bytes(x, n) ==
    int_bytes(x[2], 4) \o int_bytes(x[1] - (IF x[2] < 0 THEN 1 ELSE 0), n - 4)

\* the bytes of a Point2D {long x, y}
point2d_bytes(p) == long_bytes(p[1], SizeofLong) \o long_bytes(p[2], SizeofLong)

\* hash_point2d on the keys of the model, computed once
KeyHash == [p \in Keys |-> hash_bytes(point2d_bytes(p))]

\* the same for the keys the functions are called with on their own
FnKeyHash == [p \in FnKeys |-> hash_bytes(point2d_bytes(p))]

\* the same for the points of the simulation
LifeHash == [p \in LifePoints |-> hash_bytes(point2d_bytes(p))]

hash_point2d(p) ==
    IF p \in Keys THEN KeyHash[p]
    ELSE IF p \in FnKeys THEN FnKeyHash[p]
    ELSE IF p \in LifePoints THEN LifeHash[p]
    ELSE hash_bytes(point2d_bytes(p))

(***************************************************************************)
(* point2d_cmp: the differences of the long coordinates, converted to int. *)
(***************************************************************************)
\* the low 32 bits of the long difference a - b, as 16 bit halves <<hi, lo>>
long_sub(a, b) ==
    LET lo == (a[2] % 65536) - (b[2] % 65536)
        borrow == IF lo < 0 THEN 1 ELSE 0
        hi == (a[2] \div 65536) - (b[2] \div 65536) - borrow
    IN  <<hi % 65536, lo % 65536>>

\* the conversion of a long to int keeps the low 32 bits, given as halves d
to_int(d) ==
    IF d[1] >= 32768 THEN (d[1] - 65536) * 65536 + d[2]
    ELSE d[1] * 65536 + d[2]

\* the body of point2d_cmp
point2d_cmp_body(p1, p2) ==
    LET dx == to_int(long_sub(p1[1], p2[1]))
    IN  IF dx = 0 THEN to_int(long_sub(p1[2], p2[2])) ELSE dx

\* point2d_cmp on the keys of the model, computed once
KeyCmp == [p1 \in Keys, p2 \in Keys |-> point2d_cmp_body(p1, p2)]

point2d_cmp(p1, p2) ==
    IF p1 \in Keys /\ p2 \in Keys THEN KeyCmp[p1, p2]
    ELSE point2d_cmp_body(p1, p2)

(***************************************************************************)
(* Index arithmetic.                                                       *)
(***************************************************************************)
\* n & (n - 1) on size_t: 0 - 1 wraps to all ones, and 0 & x is 0
and_pred(n) == IF n = 0 THEN 0 ELSE BitAnd(n, n - 1)

is_pow2(n) == n # 0 /\ and_pred(n) = 0

\* the body of the loop of ceil_pow2
ceil_pow2_body(n) == and_pred(n)

\* hash_val & (num_buckets - 1); num_buckets is at most 2^16 in the model
bucket_idx(hash_val, num_buckets) == BitAnd(hash_val[2], num_buckets - 1)

probe(idx, num_buckets) == BitAnd(idx + 1, num_buckets - 1)

probe_dist(elem, idx, num_buckets) ==
    BitAnd(idx + num_buckets - bucket_idx(elem.hash_val, num_buckets),
           num_buckets - 1)

(***************************************************************************)
(* Elements and tables.                                                    *)
(***************************************************************************)
\* an element of a calloc'ed bucket array
ZeroElem == [key |-> ZeroPoint, value |-> NULL, hash_val |-> <<0, 0>>,
             is_occpuied |-> 0]

calloc_buckets(n) == [i \in 0..(n - 1) |-> ZeroElem]

NoTable == [num_buckets |-> 0, num_elems |-> 0, load_factor |-> <<0, 1>>,
            buckets |-> calloc_buckets(0)]

\* the number of elements the loop of find_elem looks at
RECURSIVE find_elem_steps(_, _, _, _)
find_elem_steps(tbl, key, idx, dist) ==
    LET elem == tbl.buckets[idx]
    IN  IF ~(elem.is_occpuied # 0 /\ dist < tbl.num_buckets) THEN 0
        ELSE IF point2d_cmp(elem.key, key) = 0 THEN 1
        ELSE IF probe_dist(elem, idx, tbl.num_buckets) < dist THEN 1
        ELSE 1 + find_elem_steps(tbl, key, probe(idx, tbl.num_buckets),
                                 dist + 1)

RECURSIVE find_elem_loop(_, _, _, _)
find_elem_loop(tbl, key, idx, dist) ==
    LET elem == tbl.buckets[idx]
    IN  IF ~(elem.is_occpuied # 0 /\ dist < tbl.num_buckets) THEN NoElem
        ELSE IF point2d_cmp(elem.key, key) = 0 THEN idx
        ELSE IF probe_dist(elem, idx, tbl.num_buckets) < dist THEN NoElem
        ELSE find_elem_loop(tbl, key, probe(idx, tbl.num_buckets), dist + 1)

find_elem(tbl, key, start_idx) == find_elem_loop(tbl, key, start_idx, 0)

\* a load test that lets the table grow only once it is more than full
load_exceeded_late(tbl) == tbl.num_elems > tbl.num_buckets

\* current_load(tbl) > tbl->load_factor
load_exceeded(tbl) ==
    tbl.num_elems * tbl.load_factor[2] > tbl.load_factor[1] * tbl.num_buckets

\* the displacement loop of rehash for one element of the old array
RECURSIVE rehash_probe(_, _, _, _, _)
rehash_probe(new_buckets, new_num_buckets, elem, new_idx, dist) ==
    IF new_buckets[new_idx].is_occpuied = 0
    THEN [new_buckets EXCEPT ![new_idx] = elem]
    ELSE LET dist_elem == probe_dist(new_buckets[new_idx], new_idx,
                                     new_num_buckets)
         IN  IF dist_elem < dist
             THEN rehash_probe([new_buckets EXCEPT ![new_idx] = elem],
                               new_num_buckets, new_buckets[new_idx],
                               probe(new_idx, new_num_buckets), dist_elem + 1)
             ELSE rehash_probe(new_buckets, new_num_buckets, elem,
                               probe(new_idx, new_num_buckets), dist + 1)

\* a loop of rehash that leaves out the last slot of the old array
RECURSIVE rehash_loop_short(_, _, _, _)
rehash_loop_short(tbl, new_buckets, new_num_buckets, idx) ==
    IF ~(idx + 1 < tbl.num_buckets) THEN new_buckets
    ELSE LET elem == tbl.buckets[idx]
         IN  IF elem.is_occpuied = 0
             THEN rehash_loop_short(tbl, new_buckets, new_num_buckets, idx + 1)
             ELSE rehash_loop_short(tbl,
                     rehash_probe(new_buckets, new_num_buckets, elem,
                         bucket_idx(elem.hash_val, new_num_buckets), 0),
                     new_num_buckets, idx + 1)

RECURSIVE rehash_loop(_, _, _, _)
rehash_loop(tbl, new_buckets, new_num_buckets, idx) ==
    IF ~(idx < tbl.num_buckets) THEN new_buckets
    ELSE LET elem == tbl.buckets[idx]
         IN  IF elem.is_occpuied = 0
             THEN rehash_loop(tbl, new_buckets, new_num_buckets, idx + 1)
             ELSE rehash_loop(tbl,
                     rehash_probe(new_buckets, new_num_buckets, elem,
                         bucket_idx(elem.hash_val, new_num_buckets), 0),
                     new_num_buckets, idx + 1)

\* a rehash that quadruples the number of buckets
rehash_quadruple(tbl) ==
    LET new_num_buckets == tbl.num_buckets * 4
    IN  [tbl EXCEPT !.num_buckets = new_num_buckets,
                    !.buckets = rehash_loop(tbl, calloc_buckets(new_num_buckets),
                                            new_num_buckets, 0)]

\* a rehash whose allocation succeeded
rehash(tbl) ==
    LET new_num_buckets == tbl.num_buckets * 2
    IN  [tbl EXCEPT !.num_buckets = new_num_buckets,
                    !.buckets = rehash_loop(tbl, calloc_buckets(new_num_buckets),
                                            new_num_buckets, 0)]

\* a displacement loop that also swaps when the two distances are equal
RECURSIVE put_probe_swap_ties(_, _, _, _, _)
put_probe_swap_ties(buckets, num_buckets, elem_insert, idx, dist) ==
    IF buckets[idx].is_occpuied = 0
    THEN [buckets EXCEPT ![idx] = elem_insert]
    ELSE LET dist_elem == probe_dist(buckets[idx], idx, num_buckets)
         IN  IF dist_elem <= dist
             THEN put_probe_swap_ties([buckets EXCEPT ![idx] = elem_insert],
                      num_buckets, buckets[idx], probe(idx, num_buckets),
                      dist_elem + 1)
             ELSE put_probe_swap_ties(buckets, num_buckets, elem_insert,
                      probe(idx, num_buckets), dist + 1)

\* the displacement loop of cell_table_put
RECURSIVE put_probe(_, _, _, _, _)
put_probe(buckets, num_buckets, elem_insert, idx, dist) ==
    IF buckets[idx].is_occpuied = 0
    THEN [buckets EXCEPT ![idx] = elem_insert]
    ELSE LET dist_elem == probe_dist(buckets[idx], idx, num_buckets)
         IN  IF dist_elem < dist
             THEN put_probe([buckets EXCEPT ![idx] = elem_insert], num_buckets,
                            buckets[idx], probe(idx, num_buckets), dist_elem + 1)
             ELSE put_probe(buckets, num_buckets, elem_insert,
                            probe(idx, num_buckets), dist + 1)

\* the number of occupied slots the displacement loop of cell_table_put
\* passes before it reaches an unoccupied one
RECURSIVE put_probe_steps(_, _, _, _, _)
put_probe_steps(buckets, num_buckets, elem_insert, idx, dist) ==
    IF buckets[idx].is_occpuied = 0 THEN 0
    ELSE LET dist_elem == probe_dist(buckets[idx], idx, num_buckets)
         IN  IF dist_elem < dist
             THEN 1 + put_probe_steps([buckets EXCEPT ![idx] = elem_insert],
                          num_buckets, buckets[idx], probe(idx, num_buckets),
                          dist_elem + 1)
             ELSE 1 + put_probe_steps(buckets, num_buckets, elem_insert,
                          probe(idx, num_buckets), dist + 1)

\* a put that counts the new element before it grows the table
cell_table_put_count_first(tbl, key, value, alloc_ok) ==
    LET hash_val == hash_point2d(key)
        idx == bucket_idx(hash_val, tbl.num_buckets)
        found == find_elem(tbl, key, idx)
        counted == [tbl EXCEPT !.num_elems = @ + 1]
    IN  IF found # NoElem
        THEN [tbl |-> [tbl EXCEPT !.buckets[found].value = value], ret |-> 1]
        ELSE IF load_exceeded(tbl) /\ ~alloc_ok
        THEN [tbl |-> counted, ret |-> 0]
        ELSE LET grown == IF load_exceeded(tbl) THEN rehash(counted) ELSE counted
                 elem_insert == [key |-> key, value |-> value,
                                 hash_val |-> hash_val, is_occpuied |-> 1]
             IN  [tbl |-> [grown EXCEPT
                             !.buckets = put_probe(grown.buckets,
                                 grown.num_buckets, elem_insert, idx, 0)],
                  ret |-> 1]

\* cell_table_put; alloc_ok is the outcome of the calloc of rehash
cell_table_put(tbl, key, value, alloc_ok) ==
    LET hash_val == hash_point2d(key)
        idx == bucket_idx(hash_val, tbl.num_buckets)
        found == find_elem(tbl, key, idx)
    IN  IF found # NoElem
        THEN [tbl |-> [tbl EXCEPT !.buckets[found].value = value], ret |-> 1]
        ELSE IF load_exceeded(tbl) /\ ~alloc_ok
        THEN [tbl |-> tbl, ret |-> 0]
        ELSE LET grown == IF load_exceeded(tbl) THEN rehash(tbl) ELSE tbl
                 elem_insert == [key |-> key, value |-> value,
                                 hash_val |-> hash_val, is_occpuied |-> 1]
             IN  [tbl |-> [grown EXCEPT
                             !.buckets = put_probe(grown.buckets,
                                 grown.num_buckets, elem_insert, idx, 0),
                             !.num_elems = @ + 1],
                  ret |-> 1]

cell_table_contains(tbl, key) ==
    IF find_elem(tbl, key, bucket_idx(hash_point2d(key), tbl.num_buckets))
         # NoElem THEN 1 ELSE 0

cell_table_get(tbl, key) ==
    LET found == find_elem(tbl, key,
                           bucket_idx(hash_point2d(key), tbl.num_buckets))
    IN  IF found # NoElem THEN tbl.buckets[found].value ELSE NULL

\* a remove that empties the ideal bucket of the key without comparing keys
cell_table_remove_nocmp(tbl, key) ==
    LET idx == bucket_idx(hash_point2d(key), tbl.num_buckets)
    IN  IF tbl.buckets[idx].is_occpuied # 0
        THEN [tbl |-> [tbl EXCEPT !.buckets[idx].is_occpuied = 0,
                                  !.num_elems = @ - 1],
              ret |-> tbl.buckets[idx].value]
        ELSE [tbl |-> tbl, ret |-> NULL]

\* cell_table_remove: the body is a comment and a TODO, it returns NULL
cell_table_remove(tbl, key) == [tbl |-> tbl, ret |-> NULL]

\* a clear that forgets to reset num_elems
cell_table_clear_keepcount(tbl) ==
    [tbl EXCEPT !.buckets = [i \in DOMAIN tbl.buckets |->
                                [tbl.buckets[i] EXCEPT !.is_occpuied = 0]]]

\* a clear whose loop starts at slot 1
cell_table_clear_from_one(tbl) ==
    [tbl EXCEPT !.buckets = [i \in DOMAIN tbl.buckets |->
                                IF i = 0 THEN tbl.buckets[i]
                                ELSE [tbl.buckets[i] EXCEPT !.is_occpuied = 0]],
                !.num_elems = 0]

cell_table_clear(tbl) ==
    [tbl EXCEPT !.buckets = [i \in DOMAIN tbl.buckets |->
                                [tbl.buckets[i] EXCEPT !.is_occpuied = 0]],
                !.num_elems = 0]

cell_table_size(tbl) == tbl.num_elems

\* the loop of cell_table_map from slot idx on; applied is the sequence of
\* the entries map_func was called with so far, each with its slot
RECURSIVE cell_table_map_loop(_, _, _)
cell_table_map_loop(tbl, idx, applied) ==
    IF ~(idx < tbl.num_buckets) THEN applied
    ELSE IF tbl.buckets[idx].is_occpuied # 0
    THEN cell_table_map_loop(tbl, idx + 1,
             Append(applied, [idx |-> idx, key |-> tbl.buckets[idx].key]))
    ELSE cell_table_map_loop(tbl, idx + 1, applied)

\* a map whose loop starts at slot 1
cell_table_map_from_one(tbl) == cell_table_map_loop(tbl, 1, <<>>)

\* cell_table_map with a map_func that looks at the entry: the calls it gets
cell_table_map(tbl) == cell_table_map_loop(tbl, 0, <<>>)

(***************************************************************************)
(* The iterator of the cell table.  A pointer to an element is the index   *)
(* of its slot (NoElem for NULL); an index of type size_t that was         *)
(* assigned -1 is InvalidIdx, and adding 1 to it gives 0.                  *)
(***************************************************************************)
InvalidIdx == -1

NoPos == [elem |-> NoElem, idx |-> InvalidIdx]

\* the loop of next_elem_iter from slot idx on
RECURSIVE next_elem_iter_loop(_, _)
next_elem_iter_loop(tbl, idx) ==
    IF ~(idx < tbl.num_buckets) THEN NoPos
    ELSE IF tbl.buckets[idx].is_occpuied # 0
         THEN [elem |-> idx, idx |-> idx]
         ELSE next_elem_iter_loop(tbl, idx + 1)

\* a next_elem_iter whose loop starts at prev_idx + 2
next_elem_iter_skip(tbl, prev_idx) == next_elem_iter_loop(tbl, prev_idx + 2)

next_elem_iter(tbl, prev_idx) == next_elem_iter_loop(tbl, prev_idx + 1)

first_elem_iter(tbl) ==
    IF tbl.num_elems = 0 THEN NoPos ELSE next_elem_iter(tbl, InvalidIdx)

cell_table_iter_init(tbl) ==
    LET first == first_elem_iter(tbl)
    IN  [current |-> NoElem, current_idx |-> InvalidIdx,
         next |-> first.elem, next_idx |-> first.idx]

cell_table_iter_has_next(it) == IF it.next # NoElem THEN 1 ELSE 0

cell_table_iter_next(tbl, it) ==
    LET following == next_elem_iter(tbl, it.next_idx)
    IN  [current |-> it.next, current_idx |-> it.next_idx,
         next |-> following.elem, next_idx |-> following.idx]

cell_table_iter_get_key(tbl, it) == tbl.buckets[it.current].key

(***************************************************************************)
(* The chaining hash table of src/hash_table.c, used with the string hash  *)
(* and compare functions as in src/hash_table_test.c.  A string is the     *)
(* sequence of its character codes without the terminating 0.  The chain   *)
(* of a bucket is the sequence of its entries from the head on, and a      *)
(* pointer to an element is <<bucket, position in the chain>> (NoNode for  *)
(* NULL).                                                                  *)
(***************************************************************************)
\* the strings "a", "b", "c", ...
HtKeys == {<<96 + i>> : i \in 1..MaxHtKeys}
HtValues == 1..MaxHtValue
HtBucketCounts == 1..MaxHtBuckets
NoNode == <<>>

RECURSIVE hash_string_loop(_, _, _)
hash_string_loop(hash, val, i) ==
    IF i > Len(val) THEN hash
    ELSE hash_string_loop(hash_step(hash, val[i]), val, i + 1)

hash_string(val) ==
    hash_string_loop(<<FNV_32_BASIS_HI, FNV_32_BASIS_LO>>, val, 1)

\* the character at position i of a C string, 0 from its end on
char_at(str, i) == IF i <= Len(str) THEN str[i] ELSE 0

\* strcmp: the difference of the first characters that differ
RECURSIVE strcmp(_, _, _)
strcmp(s1, s2, i) ==
    IF char_at(s1, i) # char_at(s2, i) THEN char_at(s1, i) - char_at(s2, i)
    ELSE IF char_at(s1, i) = 0 THEN 0
    ELSE strcmp(s1, s2, i + 1)

hash_string_cmp(val1, val2) == strcmp(val1, val2, 1)

\* hash_string on the keys of the model, computed once
HtKeyHash == [k \in HtKeys |-> hash_string(k)]

\* hash_func(key) & (bucket_cnt - 1), for bucket_cnt - 1 below 2^16
get_bucket_idx(tbl, key) == BitAnd(HtKeyHash[key][2], tbl.bucket_cnt - 1)

NoHashTable == [bucket_cnt |-> 0, elem_cnt |-> 0, buckets |-> <<>>]

\* the loop of find_elem over a chain: the position of key, 0 for NULL
RECURSIVE ht_find_loop(_, _, _)
ht_find_loop(chain, key, i) ==
    IF i > Len(chain) THEN 0
    ELSE IF hash_string_cmp(chain[i].key, key) = 0 THEN i
    ELSE ht_find_loop(chain, key, i + 1)

ht_find_elem(tbl, key) ==
    LET idx == get_bucket_idx(tbl, key)
        pos == ht_find_loop(tbl.buckets[idx], key, 1)
    IN  IF pos = 0 THEN NoNode ELSE <<idx, pos>>

\* the loop of next_elem: the head of the first bucket from idx on that is
\* not empty
RECURSIVE ht_next_bucket(_, _)
ht_next_bucket(tbl, idx) ==
    IF ~(idx < tbl.bucket_cnt) THEN NoNode
    ELSE IF tbl.buckets[idx] # <<>> THEN <<idx, 1>>
    ELSE ht_next_bucket(tbl, idx + 1)

ht_next_elem(tbl, current, bucket_idx_arg) ==
    IF current # NoNode /\ current[2] < Len(tbl.buckets[current[1]])
    THEN <<current[1], current[2] + 1>>
    ELSE ht_next_bucket(tbl, bucket_idx_arg + 1)

hash_table_size(tbl) == tbl.elem_cnt

ht_first_elem(tbl) ==
    IF hash_table_size(tbl) = 0 THEN NoNode ELSE ht_next_elem(tbl, NoNode, 0)

\* the loop of hash_table_put over a chain: the position of the first
\* element whose key is not less than key, Len(chain) + 1 if there is none
RECURSIVE ht_put_loop(_, _, _)
ht_put_loop(chain, key, i) ==
    IF i > Len(chain) THEN i
    ELSE IF hash_string_cmp(chain[i].key, key) >= 0 THEN i
    ELSE ht_put_loop(chain, key, i + 1)

\* the chain with a new element linked in before position i
ht_link(chain, i, key, val) ==
    SubSeq(chain, 1, i - 1) \o <<[key |-> key, val |-> val]>>
        \o SubSeq(chain, i, Len(chain))

\* a put that links a new element in as the head without a look at the chain
hash_table_put_as_head(tbl, key, val, alloc_ok) ==
    LET idx == get_bucket_idx(tbl, key)
        chain == tbl.buckets[idx]
    IN  IF ~alloc_ok
        THEN [tbl |-> tbl, ret |-> 0]
        ELSE [tbl |-> [tbl EXCEPT !.buckets[idx] = ht_link(chain, 1, key, val),
                                  !.elem_cnt = @ + 1],
              ret |-> 1]

\* hash_table_put; alloc_ok is the outcome of the malloc of create_elem
hash_table_put(tbl, key, val, alloc_ok) ==
    LET idx == get_bucket_idx(tbl, key)
        chain == tbl.buckets[idx]
        i == ht_put_loop(chain, key, 1)
    IN  IF i <= Len(chain) /\ hash_string_cmp(chain[i].key, key) = 0
        THEN [tbl |-> [tbl EXCEPT !.buckets[idx][i].val = val], ret |-> 1]
        ELSE IF ~alloc_ok
        THEN [tbl |-> tbl, ret |-> 0]
        ELSE [tbl |-> [tbl EXCEPT !.buckets[idx] = ht_link(chain, i, key, val),
                                  !.elem_cnt = @ + 1],
              ret |-> 1]

hash_table_get(tbl, key) ==
    LET e == ht_find_elem(tbl, key)
    IN  IF e # NoNode THEN tbl.buckets[e[1]][e[2]].val ELSE NULL

hash_table_contains(tbl, key) ==
    IF ht_find_elem(tbl, key) # NoNode THEN 1 ELSE 0

\* a remove that unlinks the element together with the rest of its chain
hash_table_remove_cut(tbl, key) ==
    LET idx == get_bucket_idx(tbl, key)
        chain == tbl.buckets[idx]
        i == ht_find_loop(chain, key, 1)
    IN  IF i = 0 THEN [tbl |-> tbl, ret |-> NULL]
        ELSE [tbl |-> [tbl EXCEPT
                         !.buckets[idx] = SubSeq(chain, 1, i - 1),
                         !.elem_cnt = @ - 1],
              ret |-> chain[i].val]

hash_table_remove(tbl, key) ==
    LET idx == get_bucket_idx(tbl, key)
        chain == tbl.buckets[idx]
        i == ht_find_loop(chain, key, 1)
    IN  IF i = 0 THEN [tbl |-> tbl, ret |-> NULL]
        ELSE [tbl |-> [tbl EXCEPT
                         !.buckets[idx] = SubSeq(chain, 1, i - 1)
                                            \o SubSeq(chain, i + 1, Len(chain)),
                         !.elem_cnt = @ - 1],
              ret |-> chain[i].val]

\* a clear that frees the elements and keeps the count
hash_table_clear_keepcount(tbl) ==
    [tbl EXCEPT !.buckets = [b \in DOMAIN tbl.buckets |-> <<>>]]

hash_table_clear(tbl) ==
    [tbl EXCEPT !.buckets = [b \in DOMAIN tbl.buckets |-> <<>>],
                !.elem_cnt = 0]

hash_table_iterator_init(tbl) ==
    [current |-> NoNode, bucket_idx |-> 0, next |-> ht_first_elem(tbl)]

hash_table_iterator_has_next(it) == IF it.next # NoNode THEN 1 ELSE 0

hash_table_iterator_next(tbl, it) ==
    IF it.next = NoNode THEN it
    ELSE LET idx == get_bucket_idx(tbl, tbl.buckets[it.next[1]][it.next[2]].key)
         IN  [current |-> it.next, bucket_idx |-> idx,
              next |-> ht_next_elem(tbl, it.next, idx)]

hash_table_iterator_get_key(tbl, it) ==
    IF it.current = NoNode THEN NULL
    ELSE tbl.buckets[it.current[1]][it.current[2]].key

hash_table_iterator_get_value(tbl, it) ==
    IF it.current = NoNode THEN NULL
    ELSE tbl.buckets[it.current[1]][it.current[2]].val

\* the NULL pointer where it stands among strings: no string holds the
\* character code 0
NullKey == <<0>>

\* a pointer that is neither NULL nor the address of a key, and one that is
\* neither NULL nor the address of a value
WildKey == <<0, 0>>
WildVal == -1

\* what the read of iter->current->entry through a NULL pointer can do: a
\* fault ends the process, or the read delivers what the build finds there,
\* NULL or not, for each of the two fields
NullReadOutcomes ==
    {[fault |-> TRUE, key |-> NullKey, val |-> NULL]}
        \cup {[fault |-> FALSE, key |-> k, val |-> v] :
                 k \in {NullKey, WildKey}, v \in {NULL, WildVal}}

\* hash_table_iterator_get: what the call can leave in out. With current
\* NULL it stores NULL in both fields and goes on, as no return follows,
\* to the two reads of iter->current->entry
hash_table_iterator_get(tbl, it) ==
    IF it.current = NoNode THEN NullReadOutcomes
    ELSE {[fault |-> FALSE,
           key |-> tbl.buckets[it.current[1]][it.current[2]].key,
           val |-> tbl.buckets[it.current[1]][it.current[2]].val]}

(***************************************************************************)
(* The state: the position of the caller (pc), the arguments of create,    *)
(* the local n of ceil_pow2, the table, and the record of the last call:   *)
(* its name, arguments, return value and the table before it.  expected    *)
(* and distinct_run are history variables: the value each key was last put *)
(* with since creation or the last clear (NULL once remove was called for  *)
(* it), and whether every call that changed the table since creation was   *)
(* a put of a key not put before.  alloc_failed records that a malloc or   *)
(* calloc of the last call returned NULL, and put_keys is the set of keys     *)
(* put with success since creation or the last clear.  iter is the         *)
(* iterator of the caller and yielded the sequence of slot indices and     *)
(* keys the running pass has delivered.                                    *)
(***************************************************************************)
VARIABLES pc, create_args, cp_n, tbl, last, expected, distinct_run,
          alloc_failed, put_keys, iter, yielded

iter_vars == <<iter, yielded>>

cell_vars == <<pc, create_args, cp_n, tbl, last, expected, distinct_run,
               alloc_failed, put_keys, iter, yielded>>

\* The chaining hash table of a second caller: its position, the table, the
\* record of its last call, the value each key was last put with (NULL
\* after a remove or a clear), its iterator and the nodes and keys the
\* running pass has delivered.
VARIABLES ht_pc, ht, ht_last, ht_expected, ht_iter, ht_yielded

ht_vars == <<ht_pc, ht, ht_last, ht_expected, ht_iter, ht_yielded>>

\* A caller of one function on its own: the function and its arguments,
\* whether it has returned, and what it returned.
VARIABLES fn_args, fn_pc, fn_ret

fn_vars == <<fn_args, fn_pc, fn_ret>>

\* The simulation: the position in main and onegeneration (life_pc), the
\* two tables main created, the two handles tbl_gen_current and tbl_gen_next
\* (each the number of one of the tables), the iterator, the point p and the
\* number of the next call of checkcell in the body of the loop, and the
\* generations done.  gen_start is a history variable: the handles and the
\* table of tbl_gen_current at the cell_table_iter_init of the generation.
VARIABLES life_pc, tables, tbl_gen_current, tbl_gen_next, gen_iter, gen_p,
          gen_call, gen_i, gen_start

life_vars == <<life_pc, tables, tbl_gen_current, tbl_gen_next, gen_iter, gen_p,
               gen_call, gen_i, gen_start>>

vars == <<cell_vars, ht_vars, fn_vars, life_vars>>

\* an iterator that is not in use
NoIter ==
    [current |-> NoElem, current_idx |-> InvalidIdx,
     next |-> NoElem, next_idx |-> InvalidIdx]

\* known: the key of a put was put before (expected held a value for it)
Call(op, key, value, ret, pre, known) ==
    [op |-> op, key |-> key, value |-> value, ret |-> ret, pre |-> pre,
     known |-> known]

NoCall == Call("none", ZeroPoint, NULL, NULL, NoTable, FALSE)

NothingExpected == [k \in Keys |-> NULL]

HtCall(op, key, val, ret, pre) ==
    [op |-> op, key |-> key, val |-> val, ret |-> ret, pre |-> pre]

NoHtCall == HtCall("none", <<>>, NULL, NULL, NoHashTable)

NoHtIter == [current |-> NoNode, bucket_idx |-> 0, next |-> NoNode]

HtInit ==
    /\ ht_pc = "start"
    /\ ht = NoHashTable
    /\ ht_last = NoHtCall
    /\ ht_expected = [k \in HtKeys |-> NULL]
    /\ ht_iter = NoHtIter
    /\ ht_yielded = <<>>

NoArgs == [fn |-> "none"]

FnIdle ==
    /\ fn_args = NoArgs
    /\ fn_pc = "idle"
    /\ fn_ret = NULL

NoGenStart == [current |-> 0, next |-> 0, tbl |-> NoTable]

\* the simulation is not run
LifeIdle ==
    /\ life_pc = "idle"
    /\ tables = <<NoTable, NoTable>>
    /\ tbl_gen_current = 1
    /\ tbl_gen_next = 2
    /\ gen_iter = NoIter
    /\ gen_p = ZeroPoint
    /\ gen_call = 0
    /\ gen_i = 0
    /\ gen_start = NoGenStart

Init ==
    /\ HtInit
    /\ FnIdle
    /\ LifeIdle
    /\ pc = "start"
    /\ create_args = [num_buckets |-> 0, load_factor |-> <<0, 1>>]
    /\ cp_n = 0
    /\ tbl = NoTable
    /\ last = NoCall
    /\ expected = NothingExpected
    /\ distinct_run = TRUE
    /\ alloc_failed = FALSE
    /\ put_keys = {}
    /\ iter = NoIter
    /\ yielded = <<>>

\* cell_table_create up to the call of ceil_pow2
CreateEnter(num_buckets, load_factor, malloc_ok) ==
    /\ pc = "start"
    /\ create_args' = [num_buckets |-> num_buckets, load_factor |-> load_factor]
    /\ IF load_factor[1] <= 0 \/ load_factor[1] >= load_factor[2] \/ ~malloc_ok
       THEN /\ pc' = "null"
            /\ last' = Call("create", ZeroPoint, NULL, NULL, NoTable, FALSE)
            /\ cp_n' = cp_n
            /\ alloc_failed' = ~(load_factor[1] <= 0
                                    \/ load_factor[1] >= load_factor[2])
       ELSE /\ pc' = "ceil_pow2"
            /\ cp_n' = num_buckets
            /\ last' = last
            /\ alloc_failed' = FALSE
    /\ UNCHANGED <<tbl, expected, distinct_run>>
    /\ UNCHANGED <<put_keys, iter, yielded>>
    /\ UNCHANGED <<ht_vars, fn_vars, life_vars>>

\* one iteration of the loop of ceil_pow2
CeilPow2Step ==
    /\ pc = "ceil_pow2"
    /\ ~is_pow2(cp_n)
    /\ cp_n' = ceil_pow2_body(cp_n)
    /\ UNCHANGED <<pc, create_args, tbl, last, expected, distinct_run,
                   alloc_failed>>
    /\ UNCHANGED <<put_keys, iter, yielded>>
    /\ UNCHANGED <<ht_vars, fn_vars, life_vars>>

\* cell_table_create from the return of ceil_pow2
CreateFinish(calloc_ok) ==
    /\ pc = "ceil_pow2"
    /\ is_pow2(cp_n)
    /\ IF calloc_ok /\ cp_n <= MaxBuckets
       THEN /\ pc' = "ready"
            /\ tbl' = [num_buckets |-> cp_n, num_elems |-> 0,
                       load_factor |-> create_args.load_factor,
                       buckets |-> calloc_buckets(cp_n)]
            /\ last' = Call("create", ZeroPoint, NULL, 1, NoTable, FALSE)
       ELSE /\ pc' = "null"
            /\ tbl' = tbl
            /\ last' = Call("create", ZeroPoint, NULL, NULL, NoTable, FALSE)
    /\ alloc_failed' = ~(calloc_ok /\ cp_n <= MaxBuckets)
    /\ UNCHANGED <<create_args, cp_n, expected, distinct_run>>
    /\ UNCHANGED <<put_keys, iter, yielded>>
    /\ UNCHANGED <<ht_vars, fn_vars, life_vars>>

\* the outcomes of the calloc of rehash in a put of key: it is called when
\* the key is not found and the load is exceeded, it may fail then, and it
\* fails when the doubled array exceeds MaxBuckets
AllocOutcomes(key) ==
    IF \/ find_elem(tbl, key, bucket_idx(hash_point2d(key), tbl.num_buckets))
            # NoElem
       \/ ~load_exceeded(tbl)
    THEN {TRUE}
    ELSE IF tbl.num_buckets * 2 <= MaxBuckets THEN {TRUE, FALSE} ELSE {FALSE}

Put(key, value, alloc_ok) ==
    /\ pc = "ready"
    /\ LET r == cell_table_put(tbl, key, value, alloc_ok)
       IN  /\ tbl' = r.tbl
           /\ last' = Call("put", key, value, r.ret, tbl, expected[key] # NULL)
           /\ expected' = IF r.ret = 1 THEN [expected EXCEPT ![key] = value]
                          ELSE expected
           /\ distinct_run' = (distinct_run /\ (r.ret = 1 => expected[key] = NULL))
           /\ put_keys' = IF r.ret = 1 THEN put_keys \cup {key} ELSE put_keys
    /\ alloc_failed' = ~alloc_ok
    /\ UNCHANGED <<pc, create_args, cp_n, iter, yielded>>
    /\ UNCHANGED <<ht_vars, fn_vars, life_vars>>

\* a get that takes the entry it found out of the table
GetTaking(key) ==
    /\ pc = "ready"
    /\ last' = Call("get", key, NULL, cell_table_get(tbl, key), tbl, FALSE)
    /\ tbl' = cell_table_remove_nocmp(tbl, key).tbl
    /\ alloc_failed' = FALSE
    /\ UNCHANGED <<pc, create_args, cp_n, expected, distinct_run>>
    /\ UNCHANGED <<put_keys, iter, yielded>>
    /\ UNCHANGED <<ht_vars, fn_vars, life_vars>>

Get(key) ==
    /\ pc = "ready"
    /\ last' = Call("get", key, NULL, cell_table_get(tbl, key), tbl, FALSE)
    /\ alloc_failed' = FALSE
    /\ UNCHANGED <<pc, create_args, cp_n, tbl, expected, distinct_run>>
    /\ UNCHANGED <<put_keys, iter, yielded>>
    /\ UNCHANGED <<ht_vars, fn_vars, life_vars>>

Contains(key) ==
    /\ pc = "ready"
    /\ last' = Call("contains", key, NULL, cell_table_contains(tbl, key), tbl, FALSE)
    /\ alloc_failed' = FALSE
    /\ UNCHANGED <<pc, create_args, cp_n, tbl, expected, distinct_run>>
    /\ UNCHANGED <<put_keys, iter, yielded>>
    /\ UNCHANGED <<ht_vars, fn_vars, life_vars>>

Size ==
    /\ pc = "ready"
    /\ last' = Call("size", ZeroPoint, NULL, cell_table_size(tbl), tbl, FALSE)
    /\ alloc_failed' = FALSE
    /\ UNCHANGED <<pc, create_args, cp_n, tbl, expected, distinct_run>>
    /\ UNCHANGED <<put_keys, iter, yielded>>
    /\ UNCHANGED <<ht_vars, fn_vars, life_vars>>

\* cell_table_map; ret holds the calls of map_func, in their order
Map ==
    /\ pc = "ready"
    /\ last' = Call("map", ZeroPoint, NULL, cell_table_map(tbl), tbl, FALSE)
    /\ alloc_failed' = FALSE
    /\ UNCHANGED <<pc, create_args, cp_n, tbl, expected, distinct_run>>
    /\ UNCHANGED <<put_keys, iter, yielded>>
    /\ UNCHANGED <<ht_vars, fn_vars, life_vars>>

Remove(key) ==
    /\ pc = "ready"
    /\ LET r == cell_table_remove(tbl, key)
       IN  /\ tbl' = r.tbl
           /\ last' = Call("remove", key, NULL, r.ret, tbl, FALSE)
    /\ expected' = [expected EXCEPT ![key] = NULL]
    /\ distinct_run' = FALSE
    /\ alloc_failed' = FALSE
    /\ UNCHANGED <<pc, create_args, cp_n>>
    /\ UNCHANGED <<put_keys, iter, yielded>>
    /\ UNCHANGED <<ht_vars, fn_vars, life_vars>>

Clear ==
    /\ pc = "ready"
    /\ tbl' = cell_table_clear(tbl)
    /\ last' = Call("clear", ZeroPoint, NULL, NULL, tbl, FALSE)
    /\ expected' = NothingExpected
    /\ distinct_run' = FALSE
    /\ alloc_failed' = FALSE
    /\ UNCHANGED <<pc, create_args, cp_n>>
    /\ put_keys' = {}
    /\ UNCHANGED iter_vars
    /\ UNCHANGED <<ht_vars, fn_vars, life_vars>>

\* the caller starts a pass over the table
IterInit ==
    /\ pc = "ready"
    /\ pc' = "iter"
    /\ iter' = cell_table_iter_init(tbl)
    /\ yielded' = <<>>
    /\ last' = Call("iter_init", ZeroPoint, NULL, NULL, tbl, FALSE)
    /\ alloc_failed' = FALSE
    /\ UNCHANGED <<create_args, cp_n, tbl, expected, distinct_run, put_keys>>
    /\ UNCHANGED <<ht_vars, fn_vars, life_vars>>

\* one round of the loop of the caller: has_next was true, next, get_key
IterStep ==
    /\ pc = "iter"
    /\ cell_table_iter_has_next(iter) # 0
    /\ LET it == cell_table_iter_next(tbl, iter)
       IN  /\ iter' = it
           /\ yielded' = Append(yielded,
                  [idx |-> it.current_idx,
                   key |-> cell_table_iter_get_key(tbl, it)])
    /\ UNCHANGED <<pc, create_args, cp_n, tbl, last, expected, distinct_run,
                   alloc_failed, put_keys>>
    /\ UNCHANGED <<ht_vars, fn_vars, life_vars>>

\* has_next was false: the loop ends and the iterator goes out of scope
IterEnd ==
    /\ pc = "iter"
    /\ cell_table_iter_has_next(iter) = 0
    /\ pc' = "ready"
    /\ iter' = NoIter
    /\ yielded' = <<>>
    /\ UNCHANGED <<create_args, cp_n, tbl, last, expected, distinct_run,
                   alloc_failed, put_keys>>
    /\ UNCHANGED <<ht_vars, fn_vars, life_vars>>

\* a caller that calls cell_table_iter_next although has_next was false,
\* once or again
IterNextPastEnd ==
    /\ \/ pc = "iter" /\ cell_table_iter_has_next(iter) = 0
       \/ pc = "past_end"
    /\ pc' = "past_end"
    /\ iter' = cell_table_iter_next(tbl, iter)
    /\ UNCHANGED <<create_args, cp_n, tbl, last, expected, distinct_run,
                   alloc_failed, put_keys, yielded>>
    /\ UNCHANGED <<ht_vars, fn_vars, life_vars>>

\* the iterator that was moved past its end goes out of scope
IterDrop ==
    /\ pc = "past_end"
    /\ pc' = "ready"
    /\ iter' = NoIter
    /\ yielded' = <<>>
    /\ UNCHANGED <<create_args, cp_n, tbl, last, expected, distinct_run,
                   alloc_failed, put_keys>>
    /\ UNCHANGED <<ht_vars, fn_vars, life_vars>>

Next ==
    \/ \E n \in 0..MaxCreateN, lf \in LoadFactors, ok \in BOOLEAN :
          CreateEnter(n, lf, ok)
    \/ CeilPow2Step
    \/ \E ok \in BOOLEAN : CreateFinish(ok)
    \/ /\ pc = "ready"
       /\ \E k \in Keys, v \in Values : \E ok \in AllocOutcomes(k) : Put(k, v, ok)
    \/ \E k \in Keys : Remove(k)
    \/ Clear

\* a caller of the calls that write: create, put, remove and clear
Spec == Init /\ [][Next]_vars

ReadNext ==
    \/ \E n \in 0..MaxCreateN, lf \in LoadFactors, ok \in BOOLEAN :
          CreateEnter(n, lf, ok)
    \/ CeilPow2Step
    \/ \E ok \in BOOLEAN : CreateFinish(ok)
    \/ /\ pc = "ready"
       /\ \E k \in Keys, v \in Values : \E ok \in AllocOutcomes(k) : Put(k, v, ok)
    \/ Clear
    \/ \E k \in Keys : Get(k)
    \/ \E k \in Keys : Contains(k)
    \/ Size
    \/ IterInit
    \/ IterStep
    \/ IterEnd
    \/ IterNextPastEnd
    \/ IterDrop
    \/ Map

\* a caller that builds a table with create, put and clear and reads it:
\* get, contains, size and passes of the iterator
ReadSpec == Init /\ [][ReadNext]_vars

\* the caller runs on: a call that is enabled is eventually made
FairSpec == Spec /\ WF_vars(Next)

(***************************************************************************)
(* The calls of the caller of the chaining hash table.                     *)
(***************************************************************************)
HtCreate(bucket_cnt, malloc_ok, calloc_ok) ==
    /\ ht_pc = "start"
    /\ IF malloc_ok /\ calloc_ok
       THEN /\ ht_pc' = "ready"
            /\ ht' = [bucket_cnt |-> bucket_cnt, elem_cnt |-> 0,
                      buckets |-> [b \in 0..(bucket_cnt - 1) |-> <<>>]]
            /\ ht_last' = HtCall("create", <<>>, NULL, 1, NoHashTable)
       ELSE /\ ht_pc' = "null"
            /\ ht' = ht
            /\ ht_last' = HtCall("create", <<>>, NULL, NULL, NoHashTable)
    /\ UNCHANGED <<ht_expected, ht_iter, ht_yielded>>
    /\ UNCHANGED <<cell_vars, fn_vars, life_vars>>

\* the outcomes of the malloc of create_elem in a put of key: it is called
\* when the key is not in its bucket
HtAllocOutcomes(key) ==
    IF ht_find_elem(ht, key) # NoNode THEN {TRUE} ELSE {TRUE, FALSE}

HtPut(key, val, alloc_ok) ==
    /\ ht_pc = "ready"
    /\ LET r == hash_table_put(ht, key, val, alloc_ok)
       IN  /\ ht' = r.tbl
           /\ ht_last' = HtCall("put", key, val, r.ret, ht)
           /\ ht_expected' = IF r.ret # 0
                              THEN [ht_expected EXCEPT ![key] = val]
                              ELSE ht_expected
    /\ UNCHANGED <<ht_pc, ht_iter, ht_yielded>>
    /\ UNCHANGED <<cell_vars, fn_vars, life_vars>>

HtGet(key) ==
    /\ ht_pc = "ready"
    /\ ht_last' = HtCall("get", key, NULL, hash_table_get(ht, key), ht)
    /\ UNCHANGED <<ht_pc, ht, ht_expected, ht_iter, ht_yielded>>
    /\ UNCHANGED <<cell_vars, fn_vars, life_vars>>

HtContains(key) ==
    /\ ht_pc = "ready"
    /\ ht_last' = HtCall("contains", key, NULL, hash_table_contains(ht, key), ht)
    /\ UNCHANGED <<ht_pc, ht, ht_expected, ht_iter, ht_yielded>>
    /\ UNCHANGED <<cell_vars, fn_vars, life_vars>>

HtSize ==
    /\ ht_pc = "ready"
    /\ ht_last' = HtCall("size", <<>>, NULL, hash_table_size(ht), ht)
    /\ UNCHANGED <<ht_pc, ht, ht_expected, ht_iter, ht_yielded>>
    /\ UNCHANGED <<cell_vars, fn_vars, life_vars>>

HtRemove(key) ==
    /\ ht_pc = "ready"
    /\ LET r == hash_table_remove(ht, key)
       IN  /\ ht' = r.tbl
           /\ ht_last' = HtCall("remove", key, NULL, r.ret, ht)
    /\ ht_expected' = [ht_expected EXCEPT ![key] = NULL]
    /\ UNCHANGED <<ht_pc, ht_iter, ht_yielded>>
    /\ UNCHANGED <<cell_vars, fn_vars, life_vars>>

HtClear ==
    /\ ht_pc = "ready"
    /\ ht' = hash_table_clear(ht)
    /\ ht_last' = HtCall("clear", <<>>, NULL, NULL, ht)
    /\ ht_expected' = [k \in HtKeys |-> NULL]
    /\ UNCHANGED <<ht_pc, ht_iter, ht_yielded>>
    /\ UNCHANGED <<cell_vars, fn_vars, life_vars>>

\* the caller starts a pass over the hash table
HtIterInit ==
    /\ ht_pc = "ready"
    /\ ht_pc' = "iter"
    /\ ht_iter' = hash_table_iterator_init(ht)
    /\ ht_yielded' = <<>>
    /\ ht_last' = HtCall("iterator_init", <<>>, NULL, NULL, ht)
    /\ UNCHANGED <<ht, ht_expected>>
    /\ UNCHANGED <<cell_vars, fn_vars, life_vars>>

\* one round of the loop of the caller: has_next was true, next, get_key
HtIterStep ==
    /\ ht_pc = "iter"
    /\ hash_table_iterator_has_next(ht_iter) # 0
    /\ LET it == hash_table_iterator_next(ht, ht_iter)
       IN  /\ ht_iter' = it
           /\ ht_yielded' = Append(ht_yielded,
                  [node |-> it.current,
                   key |-> hash_table_iterator_get_key(ht, it)])
    /\ UNCHANGED <<ht_pc, ht, ht_last, ht_expected>>
    /\ UNCHANGED <<cell_vars, fn_vars, life_vars>>

\* has_next was false: the loop ends and the iterator goes out of scope
HtIterEnd ==
    /\ ht_pc = "iter"
    /\ hash_table_iterator_has_next(ht_iter) = 0
    /\ ht_pc' = "ready"
    /\ ht_iter' = NoHtIter
    /\ ht_yielded' = <<>>
    /\ UNCHANGED <<ht, ht_last, ht_expected>>
    /\ UNCHANGED <<cell_vars, fn_vars, life_vars>>

\* the caller reads the entry the iterator points to; a fault ends it
HtIterGet ==
    /\ ht_pc = "iter"
    /\ \E out \in hash_table_iterator_get(ht, ht_iter) :
          /\ ht_pc' = IF out.fault THEN "fault" ELSE "iter"
          /\ ht_last' = HtCall("iterator_get", out.key, out.val, NULL, ht)
    /\ UNCHANGED <<ht, ht_expected, ht_iter, ht_yielded>>
    /\ UNCHANGED <<cell_vars, fn_vars, life_vars>>

HtIterGetKey ==
    /\ ht_pc = "iter"
    /\ ht_last' = HtCall("iterator_get_key", <<>>, NULL,
                         hash_table_iterator_get_key(ht, ht_iter), ht)
    /\ UNCHANGED <<ht_pc, ht, ht_expected, ht_iter, ht_yielded>>
    /\ UNCHANGED <<cell_vars, fn_vars, life_vars>>

HtIterGetValue ==
    /\ ht_pc = "iter"
    /\ ht_last' = HtCall("iterator_get_value", <<>>, NULL,
                         hash_table_iterator_get_value(ht, ht_iter), ht)
    /\ UNCHANGED <<ht_pc, ht, ht_expected, ht_iter, ht_yielded>>
    /\ UNCHANGED <<cell_vars, fn_vars, life_vars>>

HtNext ==
    \/ \E n \in HtBucketCounts, malloc_ok, calloc_ok \in BOOLEAN :
          HtCreate(n, malloc_ok, calloc_ok)
    \/ /\ ht_pc = "ready"
       /\ \E k \in HtKeys, v \in HtValues :
             \E ok \in HtAllocOutcomes(k) : HtPut(k, v, ok)
    \/ \E k \in HtKeys : HtGet(k)
    \/ \E k \in HtKeys : HtContains(k)
    \/ HtSize
    \/ \E k \in HtKeys : HtRemove(k)
    \/ HtClear
    \/ HtIterInit
    \/ HtIterStep
    \/ HtIterEnd
    \/ HtIterGet
    \/ HtIterGetKey
    \/ HtIterGetValue

\* the caller of the chaining hash table
HtSpec == Init /\ [][HtNext]_vars

(***************************************************************************)
(* The caller of one function on its own.  It starts with the arguments of *)
(* one call; the cell table and the chaining table are never created.      *)
(***************************************************************************)
CmpArgs == {[fn |-> "point2d_cmp", p1 |-> p1, p2 |-> p2] :
              p1 \in CmpPoints, p2 \in CmpPoints}

HashArgs == {[fn |-> "hash_bytes", data |-> d] : d \in HashData}

\* an occupied element with the key k
FnElem(k) ==
    [key |-> k, value |-> 1, hash_val |-> hash_point2d(k), is_occpuied |-> 1]

\* every way to fill n slots with elements of the keys: full tables and
\* tables in no Robin Hood order are among them
FnTablesOf(n, keys) ==
    {[num_buckets |-> n,
      num_elems |-> Cardinality({i \in 0..(n - 1) : b[i].is_occpuied # 0}),
      load_factor |-> <<3, 4>>, buckets |-> b] :
        b \in [0..(n - 1) -> {ZeroElem} \cup {FnElem(k) : k \in keys}]}

\* find_elem on the tables of 1, 2 and 4 slots, from every slot, for every key
FindArgs(keys) ==
    UNION {{[fn |-> "find_elem", tbl |-> t, key |-> k, start_idx |-> i] :
               k \in keys, i \in 0..(t.num_buckets - 1)} :
           t \in UNION {FnTablesOf(n, keys) : n \in {1, 2, 4}}}

\* the table after cell_table_create and the puts of the keys of seq
RECURSIVE BuiltTable(_, _, _)
BuiltTable(n, lf, seq) ==
    IF seq = <<>>
    THEN [num_buckets |-> n, num_elems |-> 0, load_factor |-> lf,
          buckets |-> calloc_buckets(n)]
    ELSE cell_table_put(BuiltTable(n, lf, SubSeq(seq, 1, Len(seq) - 1)),
                        seq[Len(seq)], 1, TRUE).tbl

\* rehash on the tables built by create and puts whose next put of a new
\* key calls it
RehashArgs(keys) ==
    {a \in {[fn |-> "rehash", num_buckets |-> n, load_factor |-> lf,
             puts |-> seq, tbl |-> BuiltTable(n, lf, seq)] :
                n \in {1, 2}, lf \in {<<1, 4>>, <<3, 4>>},
                seq \in SeqsUpTo(keys, MaxPuts)} :
        load_exceeded(a.tbl)}

\* cell_table_put of every key, with a value no earlier put stored, on the
\* tables built by create and puts
PutArgs(keys) ==
    {[fn |-> "cell_table_put", num_buckets |-> n, load_factor |-> lf,
      puts |-> seq, tbl |-> BuiltTable(n, lf, seq), key |-> k, value |-> 2] :
        n \in {1, 2}, lf \in {<<1, 4>>, <<3, 4>>},
        seq \in SeqsUpTo(keys, MaxPuts - 1), k \in keys}

FnInit ==
    /\ HtInit
    /\ LifeIdle
    /\ pc = "start"
    /\ create_args = [num_buckets |-> 0, load_factor |-> <<0, 1>>]
    /\ cp_n = 0
    /\ tbl = NoTable
    /\ last = NoCall
    /\ expected = NothingExpected
    /\ distinct_run = TRUE
    /\ alloc_failed = FALSE
    /\ put_keys = {}
    /\ iter = NoIter
    /\ yielded = <<>>
    /\ fn_args \in CmpArgs \cup HashArgs \cup FindArgs(FnKeys)
                       \cup RehashArgs(FnKeys) \cup PutArgs(FnKeys)
    /\ fn_pc = "call"
    /\ fn_ret = NULL

Point2dCmp ==
    /\ fn_pc = "call"
    /\ fn_args.fn = "point2d_cmp"
    /\ fn_ret' = point2d_cmp(fn_args.p1, fn_args.p2)
    /\ fn_pc' = "done"
    /\ UNCHANGED <<fn_args, cell_vars, ht_vars, life_vars>>

HashBytes ==
    /\ fn_pc = "call"
    /\ fn_args.fn = "hash_bytes"
    /\ fn_ret' = hash_bytes(fn_args.data)
    /\ fn_pc' = "done"
    /\ UNCHANGED <<fn_args, cell_vars, ht_vars, life_vars>>

FindElem ==
    /\ fn_pc = "call"
    /\ fn_args.fn = "find_elem"
    /\ fn_ret' = [elem |-> find_elem(fn_args.tbl, fn_args.key,
                                     fn_args.start_idx),
                  steps |-> find_elem_steps(fn_args.tbl, fn_args.key,
                                            fn_args.start_idx, 0)]
    /\ fn_pc' = "done"
    /\ UNCHANGED <<fn_args, cell_vars, ht_vars, life_vars>>

Rehash ==
    /\ fn_pc = "call"
    /\ fn_args.fn = "rehash"
    /\ fn_ret' = rehash(fn_args.tbl)
    /\ fn_pc' = "done"
    /\ UNCHANGED <<fn_args, cell_vars, ht_vars, life_vars>>

CellTablePut ==
    /\ fn_pc = "call"
    /\ fn_args.fn = "cell_table_put"
    /\ fn_ret' = cell_table_put(fn_args.tbl, fn_args.key, fn_args.value, TRUE)
    /\ fn_pc' = "done"
    /\ UNCHANGED <<fn_args, cell_vars, ht_vars, life_vars>>

FnNext ==
    \/ Point2dCmp
    \/ HashBytes
    \/ FindElem
    \/ Rehash
    \/ CellTablePut

FnSpec == FnInit /\ [][FnNext]_vars

(***************************************************************************)
(* The simulation of src/life-cell_table.c.  main creates the two tables,  *)
(* readlife puts the cells of the input into tbl_gen_current, and          *)
(* onegeneration is called once for each generation.  A pointer to a Cell  *)
(* on the heap is 1.                                                       *)
(***************************************************************************)
\* x + d for a long x and d of -1, 0 or 1
long_add(x, d) ==
    IF d = 1 /\ x[2] = 2147483647 THEN <<x[1] + 1, -2147483647 - 1>>
    ELSE IF d = -1 /\ x[2] = -2147483647 - 1 THEN <<x[1] - 1, 2147483647>>
    ELSE <<x[1], x[2] + d>>

\* ceil_pow2 for an n above 0, for which its loop ends
RECURSIVE ceil_pow2(_)
ceil_pow2(n) == IF is_pow2(n) THEN n ELSE ceil_pow2(ceil_pow2_body(n))

\* the table main creates: cell_table_create(LifeBuckets, 0.75f)
LifeTable ==
    [num_buckets |-> ceil_pow2(LifeBuckets), num_elems |-> 0,
     load_factor |-> <<3, 4>>,
     buckets |-> calloc_buckets(ceil_pow2(LifeBuckets))]

\* the cells an input can hold, in the order of the file
Gen0Seq == [i \in 1..MaxCells |-> LifeCellSeq[i]]

\* readlife: the cells of the input that are in gen0, put one by one
RECURSIVE readlife(_, _, _)
readlife(t, gen0, i) ==
    IF i > Len(Gen0Seq) THEN t
    ELSE IF Gen0Seq[i] \in gen0
    THEN readlife(cell_table_put(t, Gen0Seq[i], 1, TRUE).tbl, gen0, i + 1)
    ELSE readlife(t, gen0, i + 1)

alive(t, x, y) == cell_table_contains(t, <<x, y>>)

\* the sum n of checkcell over the eight neighbours
neighbours(t, x, y) ==
    alive(t, long_add(x, -1), long_add(y, -1))
    + alive(t, long_add(x, -1), y)
    + alive(t, long_add(x, -1), long_add(y, 1))
    + alive(t, x, long_add(y, -1))
    + alive(t, x, long_add(y, 1))
    + alive(t, long_add(x, 1), long_add(y, -1))
    + alive(t, long_add(x, 1), y)
    + alive(t, long_add(x, 1), long_add(y, 1))

\* checkcell with the table of tbl_gen_current as number cur and a put into
\* the table of number target; malloc_ok is the outcome of create_cell and
\* alloc_ok that of the calloc of rehash
checkcell_into(tbls, cur, target, x, y, malloc_ok, alloc_ok) ==
    LET n == neighbours(tbls[cur], x, y)
    IN  IF n = 3 \/ (n = 2 /\ alive(tbls[cur], x, y) # 0)
        THEN IF ~malloc_ok THEN [tables |-> tbls, exit |-> TRUE]
             ELSE [tables |-> [tbls EXCEPT ![target] =
                                  cell_table_put(@, <<x, y>>, 1, alloc_ok).tbl],
                   exit |-> FALSE]
        ELSE [tables |-> tbls, exit |-> FALSE]

\* a checkcell that puts the new cell into the table of tbl_gen_current
checkcell_current(tbls, cur, nxt, x, y, malloc_ok, alloc_ok) ==
    checkcell_into(tbls, cur, cur, x, y, malloc_ok, alloc_ok)

checkcell(tbls, cur, nxt, x, y, malloc_ok, alloc_ok) ==
    checkcell_into(tbls, cur, nxt, x, y, malloc_ok, alloc_ok)

\* the arguments of the nine calls of checkcell in the loop of onegeneration,
\* as offsets from x and y
CheckOffsets ==
    << <<-1, -1>>, <<-1, 0>>, <<-1, 1>>, <<0, -1>>, <<0, 0>>, <<0, 1>>,
       <<1, -1>>, <<1, 0>>, <<1, 1>> >>

\* cell_table_map with cell_table_gen_free: the value of every entry is freed
\* and set to NULL
map_gen_free(t) ==
    [t EXCEPT !.buckets =
        [i \in DOMAIN t.buckets |->
            IF t.buckets[i].is_occpuied # 0
            THEN [t.buckets[i] EXCEPT !.value = NULL]
            ELSE t.buckets[i]]]

\* main up to its loop: both tables created, the input read
LifeInit ==
    /\ HtInit
    /\ FnIdle
    /\ pc = "start"
    /\ create_args = [num_buckets |-> 0, load_factor |-> <<0, 1>>]
    /\ cp_n = 0
    /\ tbl = NoTable
    /\ last = NoCall
    /\ expected = NothingExpected
    /\ distinct_run = TRUE
    /\ alloc_failed = FALSE
    /\ put_keys = {}
    /\ iter = NoIter
    /\ yielded = <<>>
    /\ life_pc = "main"
    /\ \E gen0 \in SUBSET {Gen0Seq[i] : i \in DOMAIN Gen0Seq} :
          tables = <<readlife(LifeTable, gen0, 1), LifeTable>>
    /\ tbl_gen_current = 1
    /\ tbl_gen_next = 2
    /\ gen_iter = NoIter
    /\ gen_p = ZeroPoint
    /\ gen_call = 0
    /\ gen_i = 0
    /\ gen_start = NoGenStart

\* main calls onegeneration, which initialises its iterator
GenIterInit ==
    /\ life_pc = "main"
    /\ gen_i < MaxGenerations
    /\ life_pc' = "loop"
    /\ gen_iter' = cell_table_iter_init(tables[tbl_gen_current])
    /\ gen_start' = [current |-> tbl_gen_current, next |-> tbl_gen_next,
                     tbl |-> tables[tbl_gen_current]]
    /\ UNCHANGED <<tables, tbl_gen_current, tbl_gen_next, gen_p, gen_call, gen_i>>
    /\ UNCHANGED <<cell_vars, ht_vars, fn_vars>>

\* has_next was true: next and get_key
GenIterNext ==
    /\ life_pc = "loop"
    /\ cell_table_iter_has_next(gen_iter) # 0
    /\ LET it == cell_table_iter_next(tables[tbl_gen_current], gen_iter)
       IN  /\ gen_iter' = it
           /\ gen_p' = cell_table_iter_get_key(tables[tbl_gen_current], it)
    /\ gen_call' = 1
    /\ life_pc' = "check"
    /\ UNCHANGED <<tables, tbl_gen_current, tbl_gen_next, gen_i, gen_start>>
    /\ UNCHANGED <<cell_vars, ht_vars, fn_vars>>

\* the next of the nine calls of checkcell; a create_cell that fails ends the
\* process
GenCheckCell(malloc_ok, alloc_ok) ==
    /\ life_pc = "check"
    /\ LET r == checkcell(tables, tbl_gen_current, tbl_gen_next,
                          long_add(gen_p[1], CheckOffsets[gen_call][1]),
                          long_add(gen_p[2], CheckOffsets[gen_call][2]),
                          malloc_ok, alloc_ok)
       IN  /\ tables' = r.tables
           /\ life_pc' = IF r.exit THEN "exit"
                         ELSE IF gen_call = Len(CheckOffsets) THEN "loop"
                         ELSE "check"
           /\ gen_call' = IF r.exit \/ gen_call = Len(CheckOffsets) THEN 0
                          ELSE gen_call + 1
    /\ UNCHANGED <<tbl_gen_current, tbl_gen_next, gen_iter, gen_p, gen_i,
                   gen_start>>
    /\ UNCHANGED <<cell_vars, ht_vars, fn_vars>>

\* has_next was false: the handles change places, the cells of the table
\* that is now tbl_gen_next are freed and the table is cleared
GenFinish ==
    /\ life_pc = "loop"
    /\ cell_table_iter_has_next(gen_iter) = 0
    /\ tbl_gen_current' = tbl_gen_next
    /\ tbl_gen_next' = tbl_gen_current
    /\ tables' = [tables EXCEPT ![tbl_gen_current] =
                     cell_table_clear(map_gen_free(@))]
    /\ gen_iter' = NoIter
    /\ gen_i' = gen_i + 1
    /\ life_pc' = "main"
    /\ UNCHANGED <<gen_p, gen_call, gen_start>>
    /\ UNCHANGED <<cell_vars, ht_vars, fn_vars>>

LifeNext ==
    \/ GenIterInit
    \/ GenIterNext
    \/ \E malloc_ok, alloc_ok \in BOOLEAN : GenCheckCell(malloc_ok, alloc_ok)
    \/ GenFinish

LifeSpec == LifeInit /\ [][LifeNext]_vars

HtTypeOK ==
    /\ ht_pc \in {"start", "ready", "null", "iter", "fault"}
    /\ ht.bucket_cnt \in 0..MaxHtBuckets
    /\ DOMAIN ht.buckets = 0..(ht.bucket_cnt - 1)
    /\ ht.elem_cnt \in 0..MaxHtKeys

TypeOK ==
    /\ pc \in {"start", "ceil_pow2", "ready", "null", "iter", "past_end"}
    /\ tbl.num_buckets \in 0..MaxBuckets
    /\ DOMAIN tbl.buckets = 0..(tbl.num_buckets - 1)
    /\ fn_pc \in {"idle", "call", "done"}
    /\ life_pc \in {"idle", "main", "loop", "check", "exit"}
    /\ tbl_gen_current \in 1..2
    /\ tbl_gen_next \in 1..2

(***************************************************************************)
(* Vocabulary of the claims.                                               *)
(***************************************************************************)
Occupied(t) == {i \in DOMAIN t.buckets : t.buckets[i].is_occpuied # 0}

SlotsOf(t, key) == {i \in Occupied(t) : t.buckets[i].key = key}

InTable(t, key) == SlotsOf(t, key) # {}

KeysPut == {k \in Keys : expected[k] # NULL}

IsPowerOfTwo(n) == \E e \in 0..n : 2 ^ e = n

SmallestPow2Geq(n) ==
    CHOOSE p \in n..(2 * n) :
        IsPowerOfTwo(p) /\ \A q \in n..(p - 1) : ~IsPowerOfTwo(q)

Grew == last.op = "put" /\ tbl.num_buckets > last.pre.num_buckets

InsertedNew ==
    last.op = "put" /\ last.ret = 1 /\ tbl.num_elems = last.pre.num_elems + 1

\* C1: round trip.  After a successful put(k, v), and until k is put again
\* (or removed, or the table cleared), get(k) returns v and contains(k) is
\* true, growth included.
C1_RoundTrip ==
    pc = "ready" =>
        \A k \in KeysPut :
            /\ cell_table_get(tbl, k) = expected[k]
            /\ cell_table_contains(tbl, k) = 1

\* C2: uniqueness.  No two occupied slots hold equal keys, and a put of a
\* key that was put before leaves the size unchanged.
C2_Uniqueness ==
    pc = "ready" =>
        /\ \A i, j \in Occupied(tbl) :
              tbl.buckets[i].key = tbl.buckets[j].key => i = j
        /\ (last.op = "put" /\ last.ret = 1 /\ last.known)
              => cell_table_size(tbl) = cell_table_size(last.pre)

\* C3: remove of a key that is in the table: afterwards contains(k) is
\* false, the size is one less, and the stored value was returned.
C3_RemovePresent ==
    (last.op = "remove" /\ InTable(last.pre, last.key)) =>
        /\ cell_table_contains(tbl, last.key) = 0
        /\ cell_table_size(tbl) = cell_table_size(last.pre) - 1
        /\ last.ret \in {last.pre.buckets[i].value :
                            i \in SlotsOf(last.pre, last.key)}

\* C4: remove of a key that is not in the table returns NULL and leaves
\* count, capacity and every slot unchanged.
C4_RemoveAbsent ==
    (last.op = "remove" /\ ~InTable(last.pre, last.key)) =>
        /\ last.ret = NULL
        /\ tbl = last.pre

C4_Witness ==
    /\ last.op = "remove"
    /\ ~InTable(last.pre, last.key)
    /\ Occupied(tbl) # {}
    /\ tbl.buckets[bucket_idx(hash_point2d(last.key), tbl.num_buckets)]
          .is_occpuied # 0

\* C5: load factor invariant.  After a successful put that inserted a new
\* key, num_elems / num_buckets is at most the load factor of creation.
C5_LoadFactor ==
    InsertedNew =>
        tbl.num_elems * tbl.load_factor[2]
            <= tbl.load_factor[1] * tbl.num_buckets

\* C6: num_elems is strictly less than num_buckets in every state of the
\* table.
C6_CountBelowCapacity ==
    pc = "ready" => tbl.num_elems < tbl.num_buckets

\* C7: num_elems equals the number of slots whose occupied flag is set,
\* after any sequence of create, put, growth, remove and clear.
C7_CountIsOccupied ==
    pc = "ready" => tbl.num_elems = Cardinality(Occupied(tbl))

C7_Witness ==
    /\ Grew
    /\ ~distinct_run
    /\ tbl.num_elems >= 2
    /\ tbl.num_elems = Cardinality(Occupied(tbl))

\* C8: growth correctness.  N distinct keys put into a table created with
\* capacity 1 and load factor 0.75 give size N and a capacity that is a
\* power of two and at least N / 0.75.
C8_Growth ==
    ( /\ pc = "ready"
      /\ distinct_run
      /\ create_args = [num_buckets |-> 1, load_factor |-> <<3, 4>>] ) =>
        /\ cell_table_size(tbl) = Cardinality(KeysPut)
        /\ IsPowerOfTwo(tbl.num_buckets)
        /\ tbl.num_buckets * 3 >= Cardinality(KeysPut) * 4

\* C9: create(n, lf) with n >= 1 and a valid load factor yields the
\* capacity that is the smallest power of two greater than or equal to n.
C9_CreateCapacity ==
    (last.op = "create" /\ pc = "ready" /\ create_args.num_buckets >= 1) =>
        tbl.num_buckets = SmallestPow2Geq(create_args.num_buckets)

\* C10: create(0, lf) with a valid load factor terminates: it leaves
\* ceil_pow2, and the table it yields has capacity 1 (an allocation that
\* fails yields no table).
C10_CreateZeroTerminates ==
    (pc = "ceil_pow2" /\ create_args.num_buckets = 0)
        ~> (pc = "null" \/ (pc = "ready" /\ tbl.num_buckets = 1))

\* C11: in every state of a table num_buckets is a power of two and at least
\* 1, and no call changes it except a put that grows the table, which
\* doubles it.
C11_PowerOfTwoCapacity ==
    pc = "ready" =>
        /\ tbl.num_buckets >= 1
        /\ IsPowerOfTwo(tbl.num_buckets)
        /\ last.op \notin {"none", "create"} =>
              \/ tbl.num_buckets = last.pre.num_buckets
              \/ /\ last.op = "put"
                 /\ load_exceeded(last.pre)
                 /\ tbl.num_buckets = 2 * last.pre.num_buckets

C11_Witness ==
    /\ Grew
    /\ last.pre.num_buckets >= 2
    /\ tbl.num_buckets = 2 * last.pre.num_buckets

ValidLoadFactor(lf) == lf[1] > 0 /\ lf[1] < lf[2]

\* C12: cell_table_create returns NULL exactly when the load factor is not
\* strictly between 0 and 1 or an allocation fails; with a load factor
\* strictly between 0 and 1 and successful allocations it returns a table,
\* and the table has num_elems 0 and no occupied slot.
C12_CreateFailure ==
    /\ [](last.op = "create" =>
            /\ pc = "null" <=>
                  (~ValidLoadFactor(create_args.load_factor) \/ alloc_failed)
            /\ pc = "ready" => (tbl.num_elems = 0 /\ Occupied(tbl) = {}))
    /\ (pc = "ceil_pow2") ~> (pc = "ready" \/ (pc = "null" /\ alloc_failed))

\* C13: a put returns 0 exactly when the allocation of the growth it
\* started failed, and then capacity, count and every slot are as before
\* the call.
C13_PutFailure ==
    last.op = "put" =>
        /\ last.ret = 0 <=> alloc_failed
        /\ alloc_failed => tbl = last.pre

C13_Witness ==
    /\ last.op = "put"
    /\ last.ret = 0
    /\ alloc_failed
    /\ load_exceeded(last.pre)
    /\ Occupied(tbl) # {}

\* C16: cell_table_clear leaves no slot occupied, sets num_elems to 0 and
\* keeps num_buckets; after it contains is false for every key, and a put
\* of any key inserts the key as a new one.
C16_Clear ==
    last.op = "clear" =>
        /\ Occupied(tbl) = {}
        /\ tbl.num_elems = 0
        /\ tbl.num_buckets = last.pre.num_buckets
        /\ \A k \in Keys :
              /\ cell_table_contains(tbl, k) = 0
              /\ \A v \in Values, ok \in BOOLEAN :
                    LET r == cell_table_put(tbl, k, v, ok)
                    IN  /\ r.ret = 1
                        /\ r.tbl.num_elems = 1
                        /\ SlotsOf(r.tbl, k) = Occupied(r.tbl)
                        /\ cell_table_get(r.tbl, k) = v

C16_Witness ==
    /\ last.op = "clear"
    /\ last.pre.num_elems >= 2
    /\ last.pre.buckets[0].is_occpuied # 0
    /\ Occupied(tbl) = {}

ReadOnlyOps == {"get", "contains", "size"}

\* C17: get, contains and size leave capacity, count and every slot as they
\* were, for a key that is in the table and for one that is not.
C17_ReadOnly ==
    last.op \in ReadOnlyOps => tbl = last.pre

C17_Witness ==
    /\ last.op = "get"
    /\ InTable(last.pre, last.key)
    /\ last.ret # NULL
    /\ tbl.num_elems >= 2
    /\ tbl = last.pre

PassDone == pc = "iter" /\ cell_table_iter_has_next(iter) = 0

YieldedAt(k) == {i \in 1..Len(yielded) : yielded[i].key = k}

\* C14: a full pass of iter_init, has_next, next and get_key over a table
\* that is not modified yields every key put since creation or the last
\* clear exactly once and no other key, and the number of keys it yields
\* is cell_table_size.
C14_IterationComplete ==
    PassDone =>
        /\ \A k \in put_keys : Cardinality(YieldedAt(k)) = 1
        /\ \A i \in 1..Len(yielded) : yielded[i].key \in put_keys
        /\ Len(yielded) = cell_table_size(tbl)

\* C15: a pass visits the occupied slots in strictly ascending order of
\* their index, each exactly once and no unoccupied slot, and has_next is
\* true exactly while an occupied slot above the current one exists.
C15_IterationOrder ==
    pc = "iter" =>
        /\ \A i \in 1..Len(yielded) : yielded[i].idx \in Occupied(tbl)
        /\ \A i, j \in 1..Len(yielded) :
              i < j => yielded[i].idx < yielded[j].idx
        /\ cell_table_iter_has_next(iter) # 0
              <=> \E s \in Occupied(tbl) : s > iter.current_idx
        /\ {yielded[i].idx : i \in 1..Len(yielded)}
              = {s \in Occupied(tbl) : s <= iter.current_idx}

C15_Witness ==
    /\ PassDone
    /\ Len(yielded) >= 2
    /\ \E s \in DOMAIN tbl.buckets : s < yielded[1].idx
    /\ \E s \in DOMAIN tbl.buckets :
          yielded[1].idx < s /\ s < yielded[2].idx

(***************************************************************************)
(* Vocabulary of the claims about the chaining hash table.                 *)
(***************************************************************************)
HtNodes(t) ==
    UNION {{<<b, i>> : i \in 1..Len(t.buckets[b])} : b \in DOMAIN t.buckets}

HtEntry(t, n) == t.buckets[n[1]][n[2]]

HtNodesOf(t, key) == {n \in HtNodes(t) : HtEntry(t, n).key = key}

HtInTable(t, key) == HtNodesOf(t, key) # {}

HtKeysPut == {k \in HtKeys : ht_expected[k] # NULL}

HtPassDone ==
    ht_pc = "iter" /\ hash_table_iterator_has_next(ht_iter) = 0

\* C18: chaining table.  get(k) returns the value of the most recent put
\* of k, a put of a key that is in the table replaces its value and leaves
\* the size unchanged, and the size is the number of distinct keys put.
C18_HtPutGet ==
    ht_pc \in {"ready", "iter"} =>
        /\ \A k \in HtKeys : hash_table_get(ht, k) = ht_expected[k]
        /\ hash_table_size(ht) = Cardinality(HtKeysPut)
        /\ (ht_last.op = "put" /\ ht_last.ret # 0
               /\ HtInTable(ht_last.pre, ht_last.key)) =>
              /\ hash_table_size(ht) = hash_table_size(ht_last.pre)
              /\ Cardinality(HtNodesOf(ht, ht_last.key)) = 1
              /\ hash_table_get(ht, ht_last.key) = ht_last.val

C18_Witness ==
    /\ ht_last.op = "put"
    /\ ht_last.ret # 0
    /\ HtInTable(ht_last.pre, ht_last.key)
    /\ hash_table_get(ht_last.pre, ht_last.key) # ht_last.val
    /\ Len(ht.buckets[get_bucket_idx(ht, ht_last.key)]) >= 2
    /\ hash_table_size(ht) >= 3

\* C19: chaining table.  A full pass of iterator_init, has_next and next
\* over a table that is not modified visits every stored entry exactly
\* once, those of bucket 0 included, and the number of entries it visits
\* is hash_table_size.
C19_HtIteration ==
    HtPassDone =>
        /\ \A n \in HtNodes(ht) :
              Cardinality({i \in 1..Len(ht_yielded) : ht_yielded[i].node = n}) = 1
        /\ \A i \in 1..Len(ht_yielded) : ht_yielded[i].node \in HtNodes(ht)
        /\ Len(ht_yielded) = hash_table_size(ht)

\* C20: chaining table.  A remove of a key that is in the table returns its
\* value, makes the size one less and contains(k) false, and leaves every
\* other entry retrievable; a remove of a key that is not in the table
\* returns NULL and leaves the table as it was.
C20_HtRemove ==
    ht_last.op = "remove" =>
        IF HtInTable(ht_last.pre, ht_last.key)
        THEN /\ ht_last.ret = hash_table_get(ht_last.pre, ht_last.key)
             /\ ht_last.ret # NULL
             /\ hash_table_size(ht) = hash_table_size(ht_last.pre) - 1
             /\ hash_table_contains(ht, ht_last.key) = 0
             /\ ~HtInTable(ht, ht_last.key)
             /\ \A k \in HtKeys \ {ht_last.key} :
                   /\ hash_table_get(ht, k) = hash_table_get(ht_last.pre, k)
                   /\ HtInTable(ht, k) <=> HtInTable(ht_last.pre, k)
        ELSE /\ ht_last.ret = NULL
             /\ ht = ht_last.pre

C20_Witness ==
    /\ ht_last.op = "remove"
    /\ HtInTable(ht_last.pre, ht_last.key)
    /\ \E n \in HtNodesOf(ht_last.pre, ht_last.key) :
          /\ n[2] >= 2
          /\ n[2] < Len(ht_last.pre.buckets[n[1]])
    /\ ht_last.ret # NULL

(***************************************************************************)
(* Vocabulary of the properties of the functions called on their own.      *)
(***************************************************************************)
\* the order of the values of two longs
LongLess(a, b) == a[1] < b[1] \/ (a[1] = b[1] /\ a[2] < b[2])

\* the lexicographic order on (x, y)
PointLess(p1, p2) ==
    LongLess(p1[1], p2[1]) \/ (p1[1] = p2[1] /\ LongLess(p1[2], p2[2]))

Returned(fn) == fn_pc = "done" /\ fn_args.fn = fn

\* C21: point2d_cmp is the lexicographic order on (x, y) for all long
\* coordinates: it returns 0 exactly for equal points, a negative value when
\* the first point is the smaller one and a positive value when it is the
\* larger one, also when a difference of coordinates does not fit an int.
C21_Lexicographic ==
    Returned("point2d_cmp") =>
        /\ (fn_ret = 0) <=> (fn_args.p1 = fn_args.p2)
        /\ PointLess(fn_args.p1, fn_args.p2) => fn_ret < 0
        /\ PointLess(fn_args.p2, fn_args.p1) => fn_ret > 0

\* 16777619 and 2166136261 as four bytes each, lowest first
FnvPrimeBytes == <<147, 1, 0, 1>>
FnvBasisBytes == <<197, 157, 28, 129>>

\* h * 16777619 modulo 2^32 by long multiplication on bytes
FnvTimesPrime(h) ==
    LET p == FnvPrimeBytes
        c1 == h[1] * p[1]
        c2 == h[1] * p[2] + h[2] * p[1] + (c1 \div 256)
        c3 == h[1] * p[3] + h[2] * p[2] + h[3] * p[1] + (c2 \div 256)
        c4 == h[1] * p[4] + h[2] * p[3] + h[3] * p[2] + h[4] * p[1]
                + (c3 \div 256)
    IN  <<c1 % 256, c2 % 256, c3 % 256, c4 % 256>>

\* FNV-1 of a byte sequence: the hash of all bytes but the last, times the
\* prime, with the last byte XORed into the lowest byte
RECURSIVE Fnv1(_)
Fnv1(data) ==
    IF data = <<>> THEN FnvBasisBytes
    ELSE LET h == FnvTimesPrime(Fnv1(SubSeq(data, 1, Len(data) - 1)))
         IN  [h EXCEPT ![1] = BitXor(@, data[Len(data)])]

HalvesOf(h) == <<h[4] * 256 + h[3], h[2] * 256 + h[1]>>

\* C22: hash_bytes is 32 bit FNV-1: it starts from 2166136261 and for each
\* byte in order multiplies by 16777619 modulo 2^32 and then XORs the byte;
\* the result is a function of the byte sequence ("" hashes to 0x811c9dc5
\* and "a" to 0x050c5d7e).
C22_Fnv1 ==
    Returned("hash_bytes") =>
        /\ fn_ret = HalvesOf(Fnv1(fn_args.data))
        /\ fn_args.data = <<>> => fn_ret = <<33052, 40389>>
        /\ fn_args.data = <<97>> => fn_ret = <<1292, 23934>>

C22_Witness ==
    /\ Returned("hash_bytes")
    /\ fn_args.data = <<255, 97>>
    /\ fn_ret = <<53879, 51137>>

(***************************************************************************)
(* Growth and the layout of the slots.                                     *)
(***************************************************************************)
\* the element the last put built for its key
PutElem ==
    [key |-> last.key, value |-> last.value,
     hash_val |-> hash_point2d(last.key), is_occpuied |-> 1]

\* C23: when cell_table_put grows the table before it inserts a new key, the
\* probe sequence of the new entry starts, with distance 0, at the ideal
\* bucket of its hash for the doubled capacity: the slots after the put are
\* those of the grown table with the entry inserted from that bucket on.
C23_ProbeStartAfterGrowth ==
    (Grew /\ InsertedNew) =>
        tbl.buckets =
            put_probe(rehash(last.pre).buckets, tbl.num_buckets, PutElem,
                      bucket_idx(hash_point2d(last.key), tbl.num_buckets), 0)

\* C24: a put of a new key grows the table exactly when (num_elems + 1) /
\* num_buckets exceeds the load factor, with num_elems and num_buckets taken
\* before the new entry is placed.
C24_GrowthTrigger ==
    InsertedNew =>
        (Grew <=>
            (last.pre.num_elems + 1) * last.pre.load_factor[2]
                > last.pre.load_factor[1] * last.pre.num_buckets)

\* what rehash has to carry over from a slot
Triple(elem) == <<elem.key, elem.value, elem.hash_val>>

\* how many occupied slots of t hold the triple tr
CountOf(t, tr) ==
    Cardinality({i \in Occupied(t) : Triple(t.buckets[i]) = tr})

TriplesOf(t) == {Triple(t.buckets[i]) : i \in Occupied(t)}

\* C25: a successful rehash doubles num_buckets, leaves num_elems as it was,
\* and the occupied slots of the new array hold the same multiset of (key,
\* value, cached hash) triples as those of the old one.
C25_RehashPreserves ==
    Returned("rehash") =>
        LET old == fn_args.tbl
            new == fn_ret
        IN  /\ new.num_buckets = 2 * old.num_buckets
            /\ DOMAIN new.buckets = 0..(new.num_buckets - 1)
            /\ new.num_elems = old.num_elems
            /\ new.load_factor = old.load_factor
            /\ \A tr \in TriplesOf(old) \cup TriplesOf(new) :
                   CountOf(new, tr) = CountOf(old, tr)

\* a rehash of three entries or more, one of them in the last slot of the
\* old array, that moved an entry to the upper half of the new one
C25_Witness ==
    /\ Returned("rehash")
    /\ Cardinality(Occupied(fn_args.tbl)) >= 3
    /\ fn_args.tbl.num_buckets - 1 \in Occupied(fn_args.tbl)
    /\ \E i \in Occupied(fn_ret) : i >= fn_args.tbl.num_buckets

\* the entries of the old array put one by one, in ascending slot order,
\* into buckets by the displacement loop of cell_table_put
RECURSIVE InsertAll(_, _, _, _)
InsertAll(old, buckets, num_buckets, idx) ==
    IF idx >= old.num_buckets THEN buckets
    ELSE IF old.buckets[idx].is_occpuied = 0
    THEN InsertAll(old, buckets, num_buckets, idx + 1)
    ELSE InsertAll(old,
             put_probe(buckets, num_buckets, old.buckets[idx],
                       bucket_idx(old.buckets[idx].hash_val, num_buckets), 0),
             num_buckets, idx + 1)

\* find_elem, started at the ideal bucket of the entry in slot s, returns s
FoundFromIdeal(t, s) ==
    find_elem(t, t.buckets[s].key,
              bucket_idx(t.buckets[s].hash_val, t.num_buckets)) = s

\* C26: the slots rehash produces are those of putting the occupied entries
\* of the old array, in ascending slot order, with the Robin Hood insertion
\* of cell_table_put into an empty array of twice the size; and right after
\* rehash every stored entry is found by find_elem from its ideal bucket.
C26_RehashIsReinsertion ==
    Returned("rehash") =>
        LET old == fn_args.tbl
            new == fn_ret
        IN  /\ new.buckets = InsertAll(old, calloc_buckets(2 * old.num_buckets),
                                       2 * old.num_buckets, 0)
            /\ \A s \in Occupied(new) : FoundFromIdeal(new, s)

\* the first half alone
RehashLayout ==
    Returned("rehash") =>
        fn_ret.buckets =
            InsertAll(fn_args.tbl, calloc_buckets(2 * fn_args.tbl.num_buckets),
                      2 * fn_args.tbl.num_buckets, 0)

\* C29: find_elem ends after at most num_buckets probe steps for every key
\* and every table, full tables and tables in no Robin Hood order included,
\* and it returns not-found when no slot holds the key.
C29_FindTerminates ==
    Returned("find_elem") =>
        /\ fn_ret.steps <= fn_args.tbl.num_buckets
        /\ ~InTable(fn_args.tbl, fn_args.key) => fn_ret.elem = NoElem

\* the bound on the steps alone
FindStepsBound ==
    Returned("find_elem") => fn_ret.steps <= fn_args.tbl.num_buckets

(***************************************************************************)
(* The order of the slots.                                                 *)
(***************************************************************************)
\* the probe distance of the entry in slot i of t
DistAt(t, i) == probe_dist(t.buckets[i], i, t.num_buckets)

\* C27: after any sequence of put, growth, remove and clear, walking forward
\* from any slot through consecutive occupied slots, up to an empty slot or
\* to the last index, the probe distances never decrease.
C27_DistancesNonDecreasing ==
    pc = "ready" =>
        \A i \in Occupied(tbl) :
            (i + 1) \in Occupied(tbl) => DistAt(tbl, i) <= DistAt(tbl, i + 1)

\* C28: in every reachable state, for every occupied slot s, each slot on the
\* probe path from the ideal bucket of the entry in s up to s is occupied
\* and holds an entry whose probe distance is at least the number of steps
\* taken to reach it, so that find_elem gets as far as s.
C28_LookupReachability ==
    pc = "ready" =>
        \A s \in Occupied(tbl) :
            LET start == bucket_idx(tbl.buckets[s].hash_val, tbl.num_buckets)
            IN  \A j \in 0..DistAt(tbl, s) :
                    LET i == (start + j) % tbl.num_buckets
                    IN  /\ i \in Occupied(tbl)
                        /\ DistAt(tbl, i) >= j

(***************************************************************************)
(* The displacement loop of cell_table_put.                                *)
(***************************************************************************)
\* the table whose array the loop of a put of a new key into t enters
LoopEntry(t) == IF load_exceeded(t) THEN rehash(t) ELSE t

\* the steps of the loop of the last put
LastPutSteps ==
    put_probe_steps(LoopEntry(last.pre).buckets, LoopEntry(last.pre).num_buckets,
                    PutElem,
                    bucket_idx(hash_point2d(last.key), last.pre.num_buckets), 0)

\* C30: the displacement loop of cell_table_put ends within num_buckets
\* probe steps in every reachable state: whenever a put enters it, the
\* array, grown or not, has an unoccupied slot.
C30_PutLoopTerminates ==
    /\ pc = "ready" =>
           LET entry == LoopEntry(tbl)
           IN  Occupied(entry) # DOMAIN entry.buckets
    /\ InsertedNew =>
           LET entry == LoopEntry(last.pre)
           IN  /\ Occupied(entry) # DOMAIN entry.buckets
               /\ LastPutSteps < entry.num_buckets

\* a put that grew the table and passed an occupied slot on its way
C30_Witness ==
    /\ InsertedNew
    /\ Grew
    /\ LastPutSteps >= 1

(***************************************************************************)
(* The displacement rule.                                                  *)
(***************************************************************************)
\* one round of the rule on a carried entry that has reached slot idx with
\* the running distance dist: an unoccupied slot takes the carried entry; a
\* resident whose probe distance is less than dist changes places with it and
\* is carried on from its own probe distance; any other resident stays
DisplaceRound(s, num_buckets) ==
    LET resident == s.buckets[s.idx]
        dist_resident == probe_dist(resident, s.idx, num_buckets)
        next_idx == (s.idx + 1) % num_buckets
    IN  IF s.placed THEN s
        ELSE IF resident.is_occpuied = 0
        THEN [s EXCEPT !.buckets[s.idx] = s.carried, !.placed = TRUE]
        ELSE IF dist_resident < s.dist
        THEN [s EXCEPT !.buckets[s.idx] = s.carried, !.carried = resident,
                       !.idx = next_idx, !.dist = dist_resident + 1,
                       !.swaps = @ + 1]
        ELSE [s EXCEPT !.idx = next_idx, !.dist = @ + 1,
                       !.ties = @ + (IF dist_resident = s.dist THEN 1 ELSE 0)]

RECURSIVE DisplaceRounds(_, _, _)
DisplaceRounds(s, num_buckets, rounds) ==
    IF rounds = 0 \/ s.placed THEN s
    ELSE DisplaceRounds(DisplaceRound(s, num_buckets), num_buckets, rounds - 1)

\* the rule applied to an entry that starts with distance 0 at slot idx, for
\* as many rounds as it takes to pass every slot once
Displaced(buckets, num_buckets, elem, idx) ==
    DisplaceRounds([buckets |-> buckets, carried |-> elem, idx |-> idx,
                    dist |-> 0, placed |-> FALSE, swaps |-> 0, ties |-> 0],
                   num_buckets, num_buckets + 1)

\* the rule applied to the entries of the old array in ascending slot order,
\* each from the ideal bucket of its cached hash
RECURSIVE DisplacedAll(_, _, _, _)
DisplacedAll(old, buckets, num_buckets, idx) ==
    IF idx >= old.num_buckets THEN buckets
    ELSE IF old.buckets[idx].is_occpuied = 0
    THEN DisplacedAll(old, buckets, num_buckets, idx + 1)
    ELSE DisplacedAll(old,
             Displaced(buckets, num_buckets, old.buckets[idx],
                       bucket_idx(old.buckets[idx].hash_val, num_buckets)).buckets,
             num_buckets, idx + 1)

\* the call of cell_table_put added an entry
FnPutInserted ==
    /\ Returned("cell_table_put")
    /\ fn_ret.ret = 1
    /\ fn_ret.tbl.num_elems = fn_args.tbl.num_elems + 1

\* the entry the call of cell_table_put built for its key
FnPutElem ==
    [key |-> fn_args.key, value |-> fn_args.value,
     hash_val |-> hash_point2d(fn_args.key), is_occpuied |-> 1]

\* the rule applied to the entry of the call of cell_table_put, from the
\* slot its loop starts at
FnPutDisplaced ==
    Displaced(LoopEntry(fn_args.tbl).buckets, LoopEntry(fn_args.tbl).num_buckets,
              FnPutElem,
              bucket_idx(hash_point2d(fn_args.key), fn_args.tbl.num_buckets))

\* C31: during insertion, in cell_table_put and in rehash, the carried entry
\* changes places with the resident exactly when the probe distance of the
\* resident is strictly less than the running distance of the carried entry;
\* on equal distances nothing is swapped; after a swap the running distance
\* goes on from the probe distance of the entry that was swapped out. The
\* slots a put of a new key and a rehash leave are those this rule gives.
C31_DisplacementRule ==
    /\ FnPutInserted =>
           /\ FnPutDisplaced.placed
           /\ fn_ret.tbl.buckets = FnPutDisplaced.buckets
    /\ Returned("rehash") =>
           fn_ret.buckets =
               DisplacedAll(fn_args.tbl,
                            calloc_buckets(2 * fn_args.tbl.num_buckets),
                            2 * fn_args.tbl.num_buckets, 0)

\* a put of {1,1} that passes {0,0}, which sits at its distance, and then
\* swaps with {0,1}, which sits nearer to its ideal bucket
C31_Witness ==
    /\ FnPutInserted
    /\ FnPutDisplaced.ties >= 1
    /\ FnPutDisplaced.swaps >= 1
    /\ fn_args.key = <<Long(1), Long(1)>>
    /\ fn_ret.tbl.buckets[1].key = <<Long(0), Long(0)>>
    /\ fn_ret.tbl.buckets[2].key = <<Long(1), Long(1)>>
    /\ fn_ret.tbl.buckets[3].key = <<Long(0), Long(1)>>

(***************************************************************************)
(* The update of a key that is found.                                      *)
(***************************************************************************)
\* the slot find_elem gave the call of cell_table_put for its key
FnPutFound ==
    find_elem(fn_args.tbl, fn_args.key,
              bucket_idx(hash_point2d(fn_args.key), fn_args.tbl.num_buckets))

\* the call of cell_table_put changed nothing but the value in slot s
OnlyValueChanged(s) ==
    LET old == fn_args.tbl
        new == fn_ret.tbl
    IN  /\ new.num_elems = old.num_elems
        /\ new.num_buckets = old.num_buckets
        /\ new.load_factor = old.load_factor
        /\ DOMAIN new.buckets = DOMAIN old.buckets
        /\ \A i \in DOMAIN old.buckets :
               /\ new.buckets[i].is_occpuied = old.buckets[i].is_occpuied
               /\ new.buckets[i].hash_val = old.buckets[i].hash_val
               /\ new.buckets[i].key = old.buckets[i].key
               /\ i # s => new.buckets[i].value = old.buckets[i].value
        /\ new.buckets[s].value = fn_args.value

\* C32: a cell_table_put whose key is found changes only the value of the
\* slot of that key: num_elems, num_buckets, every occupied flag, every
\* cached hash and the key and value of every other slot stay as they were,
\* and the table does not grow.
C32_UpdateFrame ==
    (Returned("cell_table_put") /\ FnPutFound # NoElem) =>
        /\ fn_ret.ret = 1
        /\ fn_args.tbl.buckets[FnPutFound].key = fn_args.key
        /\ OnlyValueChanged(FnPutFound)

\* the frame alone: only the value of the slot find_elem returned changes
UpdateFrameOfFoundSlot ==
    (Returned("cell_table_put") /\ FnPutFound # NoElem) =>
        /\ fn_ret.ret = 1
        /\ OnlyValueChanged(FnPutFound)

\* an update that wrote a new value and was held to the frame
UpdateWritten ==
    /\ Returned("cell_table_put")
    /\ FnPutFound # NoElem
    /\ fn_args.tbl.buckets[FnPutFound].value # fn_args.value
    /\ fn_args.tbl.num_elems >= 2
    /\ load_exceeded(fn_args.tbl)

(***************************************************************************)
(* Removal by backward shift.                                              *)
(***************************************************************************)
\* the number of slots after slot i, in probe order, that hold an entry
\* with a probe distance above 0, counted up to the first that does not
RECURSIVE RunAfter(_, _, _)
RunAfter(t, i, len) ==
    LET j == (i + len + 1) % t.num_buckets
    IN  IF len + 1 < t.num_buckets /\ j \in Occupied(t) /\ DistAt(t, j) > 0
        THEN RunAfter(t, i, len + 1)
        ELSE len

\* C33: after cell_table_remove of a key that is in slot i, each entry of
\* the run after slot i with a probe distance above 0 sits one slot nearer
\* to its ideal bucket, the last slot that was vacated is unoccupied, and
\* every other key of the table is still retrieved with its value.
C33_BackwardShift ==
    (last.op = "remove" /\ InTable(last.pre, last.key)) =>
        \E i \in SlotsOf(last.pre, last.key) :
            LET n == last.pre.num_buckets
                len == RunAfter(last.pre, i, 0)
            IN  /\ \A j \in 1..len :
                       tbl.buckets[(i + j - 1) % n] = last.pre.buckets[(i + j) % n]
                /\ ((i + len) % n) \notin Occupied(tbl)
                /\ \A s \in Occupied(last.pre) :
                       last.pre.buckets[s].key # last.key =>
                           cell_table_get(tbl, last.pre.buckets[s].key)
                               \in {last.pre.buckets[r].value :
                                       r \in SlotsOf(last.pre,
                                                     last.pre.buckets[s].key)}

(***************************************************************************)
(* The iterator of the cell table past its end.                            *)
(***************************************************************************)
\* C34: once cell_table_iter_has_next has returned false on a table that is
\* not modified, further calls of cell_table_iter_next do not start the
\* iteration again: cell_table_iter_has_next keeps returning false.
C34_ExhaustedStaysExhausted ==
    pc = "past_end" => cell_table_iter_has_next(iter) = 0

\* on a table without entries it does
ExhaustedOnEmptyTable ==
    (pc = "past_end" /\ tbl.num_elems = 0) => cell_table_iter_has_next(iter) = 0

(***************************************************************************)
(* The accessors of the iterator of the chaining table.                    *)
(***************************************************************************)
\* the last call was this accessor, on an iterator that was initialised and
\* not advanced
BeforeFirstAdvance(op) ==
    /\ ht_pc \in {"iter", "fault"}
    /\ ht_iter.current = NoNode
    /\ ht_last.op = op

\* C35: on an iterator that was initialised and not advanced, so that
\* current is NULL, hash_table_iterator_get sets the key and the value of
\* out to NULL and does not read through current, as
\* hash_table_iterator_get_key and hash_table_iterator_get_value return NULL.
C35_GetBeforeFirstAdvance ==
    /\ BeforeFirstAdvance("iterator_get") =>
           /\ ht_pc # "fault"
           /\ ht_last.key = NullKey
           /\ ht_last.val = NULL
    /\ BeforeFirstAdvance("iterator_get_key") => ht_last.ret = NULL
    /\ BeforeFirstAdvance("iterator_get_value") => ht_last.ret = NULL

\* the two accessors that return a pointer do return NULL
KeyAndValueBeforeFirstAdvance ==
    /\ BeforeFirstAdvance("iterator_get_key") => ht_last.ret = NULL
    /\ BeforeFirstAdvance("iterator_get_value") => ht_last.ret = NULL

(***************************************************************************)
(* cell_table_map and the pass of the iterator.                            *)
(***************************************************************************)
\* what the loop of a caller of the iterator gets from it on, in its order:
\* while has_next is true, next and the slot and key of the current entry
RECURSIVE PassFrom(_, _, _)
PassFrom(t, it, out) ==
    IF cell_table_iter_has_next(it) = 0 THEN out
    ELSE LET advanced == cell_table_iter_next(t, it)
         IN  PassFrom(t, advanced,
                      Append(out, [idx |-> advanced.current_idx,
                                   key |-> cell_table_iter_get_key(t, advanced)]))

\* a full pass of the iterator over t
FullPass(t) == PassFrom(t, cell_table_iter_init(t), <<>>)

\* C36: cell_table_map calls the function exactly once for each occupied
\* slot and for no unoccupied slot, in ascending order of the slot index:
\* for the sequence of entries a full pass of the iterator yields on the
\* same table.
C36_MapIsIteratorPass ==
    last.op = "map" =>
        /\ {last.ret[i].idx : i \in DOMAIN last.ret} = Occupied(last.pre)
        /\ \A i, j \in DOMAIN last.ret :
               i < j => last.ret[i].idx < last.ret[j].idx
        /\ \A i \in DOMAIN last.ret :
               last.ret[i].key = last.pre.buckets[last.ret[i].idx].key
        /\ last.ret = FullPass(last.pre)
        /\ tbl = last.pre

\* a map over a table that holds two entries and an unoccupied slot before
\* the first of them
C36_Witness ==
    /\ last.op = "map"
    /\ Len(last.ret) = 2
    /\ last.ret[1].idx > 0
    /\ Occupied(tbl) # DOMAIN tbl.buckets

(***************************************************************************)
(* The structure of the chaining table.                                    *)
(***************************************************************************)
\* the sum of the lengths of the chains of the buckets from b on
RECURSIVE ChainedFrom(_, _)
ChainedFrom(t, b) ==
    IF b >= t.bucket_cnt THEN 0
    ELSE Len(t.buckets[b]) + ChainedFrom(t, b + 1)

\* C37: after any sequence of hash_table_put, hash_table_remove and
\* hash_table_clear the chain of every bucket is strictly ascending under the
\* compare function, every element sits in the bucket
\* hash(key) & (bucket_cnt - 1), and elem_cnt is the number of chained
\* elements.
C37_HtStructure ==
    ht_pc \in {"ready", "iter"} =>
        /\ \A b \in DOMAIN ht.buckets :
               /\ \A i \in 1..(Len(ht.buckets[b]) - 1) :
                      hash_string_cmp(ht.buckets[b][i].key,
                                      ht.buckets[b][i + 1].key) < 0
               /\ \A i \in 1..Len(ht.buckets[b]) :
                      BitAnd(hash_string(ht.buckets[b][i].key)[2],
                             ht.bucket_cnt - 1) = b
        /\ ht.elem_cnt = ChainedFrom(ht, 0)

\* a remove of the head of a chain of two, in a table that holds a third
\* element in another bucket
C37_Witness ==
    /\ ht_last.op = "remove"
    /\ ht_last.ret # NULL
    /\ \E b, c \in DOMAIN ht.buckets :
           /\ b # c
           /\ Len(ht.buckets[c]) = 1
           /\ Len(ht_last.pre.buckets[b]) = 2
           /\ ht.buckets[b] = <<ht_last.pre.buckets[b][2]>>

(***************************************************************************)
(* The two tables of a generation.                                         *)
(***************************************************************************)
\* C38: in onegeneration, from cell_table_iter_init on tbl_gen_current to
\* the end of the loop, no operation changes the table of tbl_gen_current:
\* all puts go to tbl_gen_next, which is another table; and after
\* onegeneration has returned the two handles have changed places and the
\* table of tbl_gen_next is empty.
C38_GenerationTables ==
    /\ life_pc \in {"loop", "check", "exit"} =>
           /\ tbl_gen_current # tbl_gen_next
           /\ tbl_gen_current = gen_start.current
           /\ tbl_gen_next = gen_start.next
           /\ tables[tbl_gen_current] = gen_start.tbl
    /\ (life_pc = "main" /\ gen_i > 0) =>
           /\ tbl_gen_current = gen_start.next
           /\ tbl_gen_next = gen_start.current
           /\ tbl_gen_current # tbl_gen_next
           /\ tables[tbl_gen_next].num_elems = 0
           /\ Occupied(tables[tbl_gen_next]) = {}

\* the loop has put cells into the table of tbl_gen_next, which grew, and
\* goes on
C38_InLoop ==
    /\ life_pc = "check"
    /\ tables[tbl_gen_next].num_elems >= 3
    /\ tables[tbl_gen_next].num_buckets > tables[tbl_gen_current].num_buckets

\* a second generation has returned with cells alive
C38_Witness ==
    /\ life_pc = "main"
    /\ gen_i = 2
    /\ tbl_gen_current = 1
    /\ tables[tbl_gen_current].num_elems >= 3
    /\ gen_start.tbl.num_elems >= 3

====
